---- MODULE Spec2Model ----
(***************************************************************************)
(* Model of the learning-platform backend                                  *)
(* (src/src/supabase/functions/server/index.tsx, lines 1-1110).            *)
(*                                                                         *)
(* The server is stateless: its state is the key-value store (kv), the     *)
(* identity provider's user registry (users) and the process environment   *)
(* (env).  Each route handler is one action, taken atomically: the         *)
(* behaviours are the sequential (non-overlapping) executions of requests. *)
(* Where overlapping requests are explored, a handler is split at the      *)
(* await that separates its read from its write.                           *)
(*                                                                         *)
(* JSON objects are functions from field names to values; a field that is  *)
(* undefined is absent from the domain (JSON.stringify drops it).          *)
(***************************************************************************)
EXTENDS Integers, Sequences, FiniteSets, TLC

VARIABLES
    kv,        \* key-value store: key string -> stored JSON value
    users,     \* identity provider registry: set of account records
    nextId,    \* number of the next account id the provider issues
    env,       \* process environment: which provider keys are configured
    now,       \* wall clock read by new Date() / Date.now()
    req,       \* the request served by the last step: [route, auth, body]
    resp,      \* the response to it: [status, body]
    fetched,   \* number of AI-provider calls made while serving it
    answered,  \* how the provider answered: "none", "throws", "http-error",
               \* "ok-not-json", "ok"
    sumDeltas, \* history: key -> sum of the timeSpent deltas submitted for it
    firstContent, \* history: key -> content returned by the first successful
                  \* generate-topic-content request for that key
    appended,  \* history: key -> number of chat entries ever appended to it
    signedUp,  \* history: the accounts created by successful POST /signup requests
    kvCalls,   \* the key-value calls made while serving the last request
    served,    \* history: number of requests served, counted up to MaxRequests
    inflight   \* the requests that were suspended at an await, in the order of
               \* their arrival; done marks the ones that were resumed

vars ==
    <<kv, users, nextId, signedUp, kvCalls, served, inflight, env, now, req, resp, fetched, answered, sumDeltas, firstContent, appended>>

----------------------------------------------------------------------------
(* Bounds of the model *)

MaxClock == 1          \* the clock takes the values 0..MaxClock
MaxTimeSpent == 2      \* progress updates are explored while the total stays <= this
MaxAppended == 52      \* chats are explored while at most this many entries were appended
MaxAccounts == 4       \* the provider issues the account ids u3..u<MaxAccounts>
MaxRequests == 1       \* requests explored from an onboarded store
MaxInflight == 2       \* requests that are suspended while overlaps are explored

----------------------------------------------------------------------------
(* JSON helpers *)

EmptyObj == <<>>

Has(o, f) == f \in DOMAIN o

\* { ...o, [f]: v }
Put(o, f, v) == [k \in DOMAIN o \cup {f} |-> IF k = f THEN v ELSE o[k]]

\* an optional field: opt is {} (undefined) or {v}
OptField(f, opt) == IF opt = {} THEN EmptyObj ELSE [k \in {f} |-> CHOOSE v \in opt : TRUE]

\* { ...o, [f]: opt } followed by JSON serialisation: an undefined value
\* removes the field
PutOpt(o, f, opt) ==
    IF opt = {} THEN [k \in DOMAIN o \ {f} |-> o[k]]
    ELSE Put(o, f, CHOOSE v \in opt : TRUE)

\* o.f as an optional value
Opt(o, f) == IF Has(o, f) THEN {o[f]} ELSE {}

\* JavaScript truthiness of an optional string / number
TruthyStr(opt) == opt # {} /\ opt # {""}
TruthyNum(opt) == opt # {} /\ opt # {0}

\* (x || 0) for an optional number
NumOrZero(opt) == IF TruthyNum(opt) THEN CHOOSE v \in opt : TRUE ELSE 0

----------------------------------------------------------------------------
(* Key-value store (kv_store: get / set) *)

KvGet(store, key) == IF key \in DOMAIN store THEN {store[key]} ELSE {}

KvSet(store, key, value) ==
    [k \in DOMAIN store \cup {key} |-> IF k = key THEN value ELSE store[k]]

----------------------------------------------------------------------------
(* Identity provider and authentication gate *)

\* The accounts present before the explored requests: two confirmed users.
InitialUsers ==
    { [id |-> "u1", email |-> "a@x.io", name |-> "Ann", confirmed |-> TRUE],
      [id |-> "u2", email |-> "b@x.io", name |-> "Bob", confirmed |-> TRUE] }

\* the bearer token the provider has issued to an account
TokenOf(id) == "tok-" \o id

\* Authorization header values a client may send ("" stands for no header)
AuthHeaders == {"", "Bearer tok-u1", "Bearer tok-u2", "Bearer expired"}

\* authHeader.split(' ')[1]: the text between the first and the second
\* space ("" stands for undefined, when there is no space)
BearerToken(authHeader) ==
    LET spaces == { i \in 1..Len(authHeader) : SubSeq(authHeader, i, i) = " " }
        first == CHOOSE i \in spaces : \A j \in spaces : i <= j
        later == { i \in spaces : i > first }
        last == IF later = {} THEN Len(authHeader) + 1
                ELSE CHOOSE i \in later : \A j \in later : i <= j
    IN  IF spaces = {} THEN "" ELSE SubSeq(authHeader, first + 1, last - 1)

\* verifyAuth: the set holding the verified user, or {} for null
verifyAuth(authHeader) ==
    IF authHeader = "" THEN {}
    ELSE { u \in users : TokenOf(u.id) = BearerToken(authHeader) }

Request(route, authHeader, body) == [route |-> route, auth |-> authHeader, body |-> body]

\* the last step served no request
NoRequest == Request("", "", EmptyObj)
NoResponse == [status |-> 0, body |-> EmptyObj]
\* the handler returns without calling an AI provider
NoFetch == fetched' = 0 /\ answered' = "none"

\* the handler calls an AI provider once and gets the reply
Fetch(reply) == fetched' = 1 /\ answered' = reply.kind

Idle ==
    /\ req' = NoRequest /\ resp' = NoResponse
    /\ NoFetch /\ kvCalls' = {}
    /\ UNCHANGED served

\* a handler starts serving a request
Serve(route, authHeader, body) ==
    /\ req' = Request(route, authHeader, body)
    /\ served' = IF served < MaxRequests THEN served + 1 ELSE served

\* the calls a handler makes on the key-value store
KvCall(op, key) == [op |-> op, key |-> key]

Unauthorized == [status |-> 401, body |-> [error |-> "Unauthorized"]]

\* a gate that looks the caller's profile up before it rejects
RejectUnauthorized_AfterLookup(route, authHeader) ==
    /\ verifyAuth(authHeader) = {}
    /\ Serve(route, authHeader, EmptyObj)
    /\ resp' = Unauthorized
    /\ NoFetch
    /\ kvCalls' = {KvCall("get", "profile:" \o BearerToken(authHeader))}
    /\ UNCHANGED <<kv, users, nextId, signedUp, inflight, env, now, sumDeltas, firstContent, appended>>

\* the early return of every authenticated route; it is taken before the
\* request body is read
RejectUnauthorized(route, authHeader) ==
    /\ verifyAuth(authHeader) = {}
    /\ Serve(route, authHeader, EmptyObj)
    /\ resp' = Unauthorized
    /\ NoFetch
    /\ kvCalls' = {}
    /\ UNCHANGED <<kv, users, nextId, signedUp, inflight, env, now, sumDeltas, firstContent, appended>>

----------------------------------------------------------------------------
(* GET /health, GET /test *)

\* lines 36-49; SUPABASE_URL and SUPABASE_SERVICE_ROLE_KEY may or may not be
\* visible to the function
GetHealth ==
    \E hasSupabaseUrl \in BOOLEAN, hasServiceKey \in BOOLEAN :
       /\ Serve("GET /health", "", EmptyObj)
       /\ resp' = [status |-> 200,
                   body |-> [status |-> "ok", timestamp |-> now,
                             env |-> [hasSupabaseUrl |-> hasSupabaseUrl,
                                      hasServiceKey |-> hasServiceKey,
                                      supabaseUrl |-> IF hasSupabaseUrl THEN "configured"
                                                      ELSE "missing"]]]
       /\ NoFetch
       /\ kvCalls' = {}
       /\ UNCHANGED <<kv, users, nextId, signedUp, inflight, env, now, sumDeltas, firstContent, appended>>

\* lines 52-57
GetTest ==
    /\ Serve("GET /test", "", EmptyObj)
    /\ resp' = [status |-> 200, body |-> [message |-> "Backend is working!", timestamp |-> now]]
    /\ NoFetch
    /\ kvCalls' = {}
    /\ UNCHANGED <<kv, users, nextId, signedUp, inflight, env, now, sumDeltas, firstContent, appended>>

----------------------------------------------------------------------------
(* Environment: time passes between requests *)

Tick ==
    /\ now < MaxClock
    /\ now' = now + 1
    /\ Idle
    /\ UNCHANGED <<kv, users, nextId, signedUp, inflight, env, sumDeltas, firstContent, appended>>

----------------------------------------------------------------------------
(* POST /progress *)

ModuleIds == {"m1"}
StatusInputs == {"in-progress", "completed"}
TimeSpentInputs == {1, 2}

\* a key that leaves the user out
progressKey_Shared(userId, moduleId) == "progress:" \o moduleId

progressKey(userId, moduleId) == "progress:" \o userId \o ":" \o moduleId

\* a merge that forgets the stored status when the request supplies none
MergeStatus_ForgetsPrior(status, existingProgress) ==
    IF TruthyStr(status) THEN CHOOSE s \in status : TRUE ELSE "not-started"

\* status || existingProgress.status || 'not-started'
MergeStatus(status, existingProgress) ==
    IF TruthyStr(status) THEN CHOOSE s \in status : TRUE
    ELSE IF TruthyStr(Opt(existingProgress, "status")) THEN existingProgress.status
    ELSE "not-started"

\* a merge that overwrites the stored total with the submitted delta
MergeTimeSpent_Overwrites(timeSpent, existingProgress) == NumOrZero(timeSpent)

\* (existingProgress.timeSpent || 0) + (timeSpent || 0)
MergeTimeSpent(timeSpent, existingProgress) ==
    NumOrZero(Opt(existingProgress, "timeSpent")) + NumOrZero(timeSpent)

\* a merge that clears completedAt when the status is not 'completed'
MergeCompletedAt_Clears(status, existingProgress, time) ==
    IF status = {"completed"} THEN {time} ELSE {}

\* status === 'completed' ? new Date().toISOString() : existingProgress.completedAt
MergeCompletedAt(status, existingProgress, time) ==
    IF status = {"completed"} THEN {time} ELSE Opt(existingProgress, "completedAt")

\* performanceScore || existingProgress.performanceScore
MergeScore(performanceScore, existingProgress) ==
    IF TruthyNum(performanceScore) THEN performanceScore
    ELSE Opt(existingProgress, "performanceScore")

\* notes || existingProgress.notes
MergeNotes(notes, existingProgress) ==
    IF TruthyStr(notes) THEN notes ELSE Opt(existingProgress, "notes")

\* completedTopics || existingProgress.completedTopics || []; an array is
\* truthy, the empty one included
MergeTopics(completedTopics, existingProgress) ==
    IF completedTopics # {} THEN CHOOSE t \in completedTopics : TRUE
    ELSE IF Has(existingProgress, "completedTopics") THEN existingProgress.completedTopics
    ELSE <<>>

\* the merged record built at lines 437-448
MergeProgress(userId, moduleId, body, existingProgress, time) ==
    LET r1 == Put(existingProgress, "userId", userId)
        r2 == Put(r1, "moduleId", moduleId)
        r3 == Put(r2, "status", MergeStatus(Opt(body, "status"), existingProgress))
        r4 == Put(r3, "timeSpent", MergeTimeSpent(Opt(body, "timeSpent"), existingProgress))
        r5 == PutOpt(r4, "performanceScore",
                     MergeScore(Opt(body, "performanceScore"), existingProgress))
        r6 == PutOpt(r5, "notes", MergeNotes(Opt(body, "notes"), existingProgress))
        r7 == Put(r6, "completedTopics",
                  MergeTopics(Opt(body, "completedTopics"), existingProgress))
        r8 == Put(r7, "lastUpdated", time)
    IN  PutOpt(r8, "completedAt", MergeCompletedAt(Opt(body, "status"), existingProgress, time))

ProgressBodies ==
    { [moduleId |-> m] @@ OptField("status", st) @@ OptField("timeSpent", ts) :
        m \in ModuleIds,
        st \in {{}} \cup {{s} : s \in StatusInputs},
        ts \in {{}} \cup {{t} : t \in TimeSpentInputs} }

\* request bodies that carry a score, notes, a topic list and a status, each
\* of them absent, falsy or filled; 'paused' is no status of the schema
ScoreInputs == {0, 80, 95}
NotesInputs == {"", "review closures"}
CompletedTopicsInputs == {<<>>, <<"t1">>}
MergeBodies ==
    { [moduleId |-> m] @@ OptField("status", st) @@ OptField("performanceScore", sc)
        @@ OptField("notes", nt) @@ OptField("completedTopics", ct) :
        m \in ModuleIds,
        st \in {{}, {"in-progress"}, {"paused"}},
        sc \in {{}} \cup {{x} : x \in ScoreInputs},
        nt \in {{}} \cup {{x} : x \in NotesInputs},
        ct \in {{}} \cup {{x} : x \in CompletedTopicsInputs} }

\* kv.get(progressKey) || {}
StoredProgress(key) == IF key \in DOMAIN kv THEN kv[key] ELSE EmptyObj

\* history: the deltas submitted by the requests that were answered
RecordDelta(key, body) ==
    sumDeltas' = KvSet(sumDeltas, key,
                       (IF key \in DOMAIN sumDeltas THEN sumDeltas[key] ELSE 0)
                       + (IF Has(body, "timeSpent") THEN body.timeSpent ELSE 0))

\* the handler run without interruption, for one request body
UpdateProgress(authHeader, body) ==
    \/ RejectUnauthorized("POST /progress", authHeader)
    \/ \E user \in verifyAuth(authHeader) :
         LET key == progressKey(user.id, body.moduleId)
             existingProgress == StoredProgress(key)
             progress == MergeProgress(user.id, body.moduleId, body, existingProgress, now)
         IN  /\ progress.timeSpent <= MaxTimeSpent
             /\ Serve("POST /progress", authHeader, body)
             /\ kv' = KvSet(kv, key, progress)
             /\ resp' = [status |-> 200, body |-> [success |-> TRUE, progress |-> progress]]
             /\ NoFetch
             /\ kvCalls' = {KvCall("get", key), KvCall("set", key)}
             /\ RecordDelta(key, body)
             /\ UNCHANGED <<users, nextId, signedUp, inflight, env, now, firstContent, appended>>

PostProgress(authHeader) == \E body \in ProgressBodies : UpdateProgress(authHeader, body)

\* The handler awaits the store twice, for its read (line 435) and for its
\* write (line 450); requests that overlap interleave at these awaits.
\* ReadProgress runs a request up to the merge of what it read.
ReadProgress(authHeader, body) ==
    \/ RejectUnauthorized("POST /progress", authHeader)
    \/ \E user \in verifyAuth(authHeader) :
         LET key == progressKey(user.id, body.moduleId)
         IN  /\ Len(inflight) < MaxInflight
             /\ Serve("POST /progress", authHeader, body)
             /\ inflight' = Append(inflight,
                    [auth |-> authHeader, body |-> body, key |-> key, done |-> FALSE,
                     userId |-> user.id, existing |-> StoredProgress(key), time |-> now])
             /\ resp' = NoResponse
             /\ NoFetch
             /\ kvCalls' = {KvCall("get", key)}
             /\ UNCHANGED <<kv, users, nextId, signedUp, env, now, sumDeltas, firstContent, appended>>

\* a write that merges into the record stored at the time of the write
WrittenProgress_Rereads(r) ==
    MergeProgress(r.userId, r.body.moduleId, r.body, StoredProgress(r.key), r.time)

\* the record passed to kv.set (line 450): the merge of what the request read
WrittenProgress(r) ==
    MergeProgress(r.userId, r.body.moduleId, r.body, r.existing, r.time)

\* WriteProgress resumes a request: its merged record is stored and returned.
WriteProgress(n) ==
    LET r == inflight[n]
        progress == WrittenProgress(r)
    IN  /\ ~r.done
        /\ inflight' = [inflight EXCEPT ![n].done = TRUE]
        /\ req' = Request("POST /progress", r.auth, r.body)
        /\ kv' = KvSet(kv, r.key, progress)
        /\ resp' = [status |-> 200, body |-> [success |-> TRUE, progress |-> progress]]
        /\ NoFetch
        /\ kvCalls' = {KvCall("get", r.key), KvCall("set", r.key)}
        /\ RecordDelta(r.key, r.body)
        /\ UNCHANGED <<users, nextId, signedUp, served, env, now, firstContent, appended>>

\* GET /progress: kv.getByPrefix(`progress:${user.id}:`)
ProgressOf(userId) ==
    LET prefix == "progress:" \o userId \o ":"
    IN  { kv[k] : k \in { k \in DOMAIN kv :
                            /\ Len(k) >= Len(prefix)
                            /\ SubSeq(k, 1, Len(prefix)) = prefix } }

GetProgress(authHeader) ==
    \/ RejectUnauthorized("GET /progress", authHeader)
    \/ \E user \in verifyAuth(authHeader) :
         /\ Serve("GET /progress", authHeader, EmptyObj)
         /\ resp' = [status |-> 200, body |-> [progress |-> ProgressOf(user.id)]]
         /\ NoFetch
         /\ kvCalls' = {KvCall("getByPrefix", "progress:" \o user.id \o ":")}
         /\ UNCHANGED <<kv, users, nextId, signedUp, inflight, env, now, sumDeltas, firstContent, appended>>

----------------------------------------------------------------------------
(* GET /achievements, POST /achievements *)

LevelSize == 1000

AchievementIds == {"first-module", "streak-7"}
XpInputs == {400, 700, -300}

achievementsKey(userId) == "achievements:" \o userId

\* the record used when none is stored
DefaultAchievements == [unlocked |-> <<>>, xp |-> 0, level |-> 1, streak |-> 0]

\* kv.get(`achievements:${user.id}`) || { unlocked: [], xp: 0, level: 1, streak: 0 }
StoredAchievements(userId) ==
    IF achievementsKey(userId) \in DOMAIN kv THEN kv[achievementsKey(userId)]
    ELSE DefaultAchievements

\* achievements.unlocked.includes(achievementId)
Includes(list, x) == \E i \in 1..Len(list) : list[i] = x

\* Math.floor(xp / 1000) + 1
LevelOf(xp) == (xp \div LevelSize) + 1

\* an unlock that pushes the id without looking for it in the list
Unlock_AlwaysAppends(achievements, achievementId, xp) ==
    [achievements EXCEPT
        !.unlocked = Append(@, achievementId),
        !.xp = IF Includes(achievements.unlocked, achievementId) THEN @ ELSE @ + xp,
        !.level = LevelOf(IF Includes(achievements.unlocked, achievementId)
                          THEN achievements.xp ELSE achievements.xp + xp)]

\* an unlock that adds the xp again for an id that is already unlocked
Unlock_CountsTwice(achievements, achievementId, xp) ==
    [achievements EXCEPT
        !.unlocked = IF Includes(@, achievementId) THEN @ ELSE Append(@, achievementId),
        !.xp = @ + xp,
        !.level = LevelOf(achievements.xp + xp)]

\* an unlock that leaves the level as it was
Unlock_StaleLevel(achievements, achievementId, xp) ==
    IF ~Includes(achievements.unlocked, achievementId)
    THEN [achievements EXCEPT !.unlocked = Append(@, achievementId), !.xp = @ + xp]
    ELSE achievements

\* lines 879-883
Unlock(achievements, achievementId, xp) ==
    IF ~Includes(achievements.unlocked, achievementId)
    THEN [achievements EXCEPT
            !.unlocked = Append(@, achievementId),
            !.xp = @ + xp,
            !.level = LevelOf(achievements.xp + xp)]
    ELSE achievements

AchievementBodies == [achievementId : AchievementIds, xp : XpInputs]

PostAchievements(authHeader) ==
    \/ RejectUnauthorized("POST /achievements", authHeader)
    \/ \E user \in verifyAuth(authHeader), body \in AchievementBodies :
         LET achievements == Unlock(StoredAchievements(user.id), body.achievementId, body.xp)
         IN  /\ Serve("POST /achievements", authHeader, body)
             /\ kv' = KvSet(kv, achievementsKey(user.id), achievements)
             /\ resp' = [status |-> 200,
                         body |-> [success |-> TRUE, achievements |-> achievements]]
             /\ NoFetch
             /\ kvCalls' = {KvCall("get", achievementsKey(user.id)),
                             KvCall("set", achievementsKey(user.id))}
             /\ UNCHANGED <<users, nextId, signedUp, inflight, env, now, sumDeltas, firstContent, appended>>

\* The handler awaits the store for its read (line 872) and for its write
\* (line 885); requests that overlap interleave at these awaits.
\* ReadAchievements runs a request up to its read.
ReadAchievements(authHeader, body) ==
    \/ RejectUnauthorized("POST /achievements", authHeader)
    \/ \E user \in verifyAuth(authHeader) :
         /\ Len(inflight) < MaxInflight
         /\ Serve("POST /achievements", authHeader, body)
         /\ inflight' = Append(inflight,
                [auth |-> authHeader, body |-> body, key |-> achievementsKey(user.id),
                 done |-> FALSE, existing |-> StoredAchievements(user.id)])
         /\ resp' = NoResponse
         /\ NoFetch
         /\ kvCalls' = {KvCall("get", achievementsKey(user.id))}
         /\ UNCHANGED <<kv, users, nextId, signedUp, env, now, sumDeltas, firstContent, appended>>

\* WriteAchievements resumes a request: the record it read, with the unlock
\* applied, is stored and returned.
WriteAchievements(n) ==
    LET r == inflight[n]
        achievements == Unlock(r.existing, r.body.achievementId, r.body.xp)
    IN  /\ ~r.done
        /\ inflight' = [inflight EXCEPT ![n].done = TRUE]
        /\ req' = Request("POST /achievements", r.auth, r.body)
        /\ kv' = KvSet(kv, r.key, achievements)
        /\ resp' = [status |-> 200, body |-> [success |-> TRUE, achievements |-> achievements]]
        /\ NoFetch
        /\ kvCalls' = {KvCall("get", r.key), KvCall("set", r.key)}
        /\ UNCHANGED <<users, nextId, signedUp, served, env, now, sumDeltas, firstContent, appended>>

\* a read that stores the default record when none is stored
GetAchievements_StoresDefault(authHeader) ==
    \/ RejectUnauthorized("GET /achievements", authHeader)
    \/ \E user \in verifyAuth(authHeader) :
         /\ Serve("GET /achievements", authHeader, EmptyObj)
         /\ resp' = [status |-> 200, body |-> [achievements |-> StoredAchievements(user.id)]]
         /\ NoFetch
         /\ kvCalls' = {KvCall("get", achievementsKey(user.id))}
         /\ kv' = KvSet(kv, achievementsKey(user.id), StoredAchievements(user.id))
         /\ UNCHANGED <<users, nextId, signedUp, inflight, env, now, sumDeltas, firstContent, appended>>

GetAchievements(authHeader) ==
    \/ RejectUnauthorized("GET /achievements", authHeader)
    \/ \E user \in verifyAuth(authHeader) :
         /\ Serve("GET /achievements", authHeader, EmptyObj)
         /\ resp' = [status |-> 200, body |-> [achievements |-> StoredAchievements(user.id)]]
         /\ NoFetch
         /\ kvCalls' = {KvCall("get", achievementsKey(user.id))}
         /\ UNCHANGED <<kv, users, nextId, signedUp, inflight, env, now, sumDeltas, firstContent, appended>>

----------------------------------------------------------------------------
(* Process environment *)

\* the deployment sets or removes a provider key
SetEnv(name) ==
    /\ env' = [env EXCEPT ![name] = ~@]
    /\ Idle
    /\ UNCHANGED <<kv, users, nextId, signedUp, inflight, now, sumDeltas, firstContent, appended>>

----------------------------------------------------------------------------
(* POST /generate-topic-content, GET /topic-content/:moduleId/:topic *)

Topics == {"t1", "t2"}
Difficulties == {"beginner", "advanced"}

TopicBodies ==
    [moduleId : ModuleIds, moduleTitle : {"Basics"}, topic : Topics,
     difficulty : Difficulties, targetGoal : {"SRE"}]

contentKey(userId, moduleId, topic) ==
    "topic-content:" \o userId \o ":" \o moduleId \o ":" \o topic

\* a roadmap the roadmap provider may answer with
RoadmapJson == "{\"phases\":[],\"totalEstimatedWeeks\":12}"

\* message texts the topic-content provider may answer with
JsonWithQueries == "{\"explanation\":\"A\",\"youtubeSearchQueries\":[\"q a\"]}"
JsonNoQueries == "{\"explanation\":\"B\"}"
JsonBadQueries == "{\"youtubeSearchQueries\":5}"
MessageTexts ==
    { JsonWithQueries,
      "Here: " \o JsonNoQueries \o " Enjoy",
      "Closures capture variables",
      "{not json}",
      JsonBadQueries,
      "" }

\* what fetch() to the provider can yield: a thrown network error, a non-2xx
\* answer, a 2xx answer whose body is not JSON (response.json() throws), or a
\* 2xx answer with a JSON body
ProviderReplies ==
    { [kind |-> "throws"], [kind |-> "http-error"], [kind |-> "ok-not-json"],
      [kind |-> "ok", data |-> EmptyObj],
      [kind |-> "ok", data |-> [choices |-> <<>>]] }
    \cup { [kind |-> "ok", data |-> [choices |-> <<[message |-> [content |-> t]]>>]] :
             t \in MessageTexts }

\* content.match(/\{[\s\S]*\}/): from the first '{' to the last '}' after it
BracePositions(text, ch) == { i \in 1..Len(text) : SubSeq(text, i, i) = ch }
Min(S) == CHOOSE x \in S : \A y \in S : x <= y
Max(S) == CHOOSE x \in S : \A y \in S : x >= y
JsonMatch(text) ==
    LET opens == BracePositions(text, "{")
        closes == IF opens = {} THEN {}
                  ELSE { j \in BracePositions(text, "}") : j > Min(opens) }
    IN  IF closes = {} THEN {} ELSE {SubSeq(text, Min(opens), Max(closes))}

\* JSON.parse on the texts above: {} when it throws
JsonParse(text) ==
    IF text = RoadmapJson THEN {[phases |-> <<>>, totalEstimatedWeeks |-> 12]}
    ELSE IF text = JsonWithQueries
    THEN {[explanation |-> "A", youtubeSearchQueries |-> <<"q a">>]}
    ELSE IF text = JsonNoQueries THEN {[explanation |-> "B"]}
    ELSE IF text = JsonBadQueries THEN {[youtubeSearchQueries |-> 5]}
    ELSE {}

\* the three search queries both fallbacks use
FallbackQueries(topic, targetGoal) ==
    <<topic \o " tutorial", topic \o " explained", topic \o " " \o targetGoal>>

\* the object built when the answer holds no brace-delimited text (lines 593-600)
RawTextContent(text, topic, targetGoal) ==
    [explanation |-> text, keyPoints |-> <<>>, applications |-> <<>>,
     pitfalls |-> <<>>, practiceIdeas |-> <<>>,
     youtubeSearchQueries |-> FallbackQueries(topic, targetGoal)]

\* the object built in the catch block (lines 607-614)
DegradedContent(topic, targetGoal) ==
    [explanation |-> "Failed to generate detailed content. Topic: " \o topic,
     keyPoints |-> <<"Learn about " \o topic, "Practice " \o topic, "Apply " \o topic>>,
     applications |-> <<"Understanding " \o topic>>,
     pitfalls |-> <<"Skipping fundamentals">>,
     practiceIdeas |-> <<"Practice " \o topic>>,
     youtubeSearchQueries |-> FallbackQueries(topic, targetGoal)]

\* lines 571-615: the generated content of a 2xx answer
GeneratedContent(data, topic, targetGoal) ==
    IF ~Has(data, "choices") \/ Len(data.choices) = 0
    THEN DegradedContent(topic, targetGoal)
    ELSE LET text == data.choices[1].message.content
         IN  IF text = "" THEN DegradedContent(topic, targetGoal)
             ELSE IF JsonMatch(text) = {} THEN RawTextContent(text, topic, targetGoal)
             ELSE LET parsed == JsonParse(CHOOSE m \in JsonMatch(text) : TRUE)
                  IN  IF parsed = {} THEN DegradedContent(topic, targetGoal)
                      ELSE CHOOSE o \in parsed : TRUE

\* whether for (const query of generatedContent.youtubeSearchQueries || [])
\* can iterate: a number is not iterable
QueriesIterable(generated) == generated # [youtubeSearchQueries |-> 5]

RECURSIVE encodeURIComponent(_)
encodeURIComponent(str) ==
    IF str = "" THEN ""
    ELSE LET c == SubSeq(str, 1, 1)
         IN  (IF c = " " THEN "%20" ELSE IF c = ":" THEN "%3A" ELSE c)
             \o encodeURIComponent(SubSeq(str, 2, Len(str)))

\* lines 619-632
YoutubeVideos(generated) ==
    LET queries == IF Has(generated, "youtubeSearchQueries")
                   THEN generated.youtubeSearchQueries ELSE <<>>
    IN  [i \in 1..Len(queries) |->
           [title |-> queries[i],
            searchUrl |-> "https://www.youtube.com/results?search_query="
                          \o encodeURIComponent(queries[i]),
            embedQuery |-> queries[i]]]

\* lines 634-642
TopicContent(generated, body, time) ==
    Put(Put(Put(Put(Put(Put(generated,
        "youtubeVideos", YoutubeVideos(generated)),
        "topic", body.topic),
        "moduleId", body.moduleId),
        "moduleTitle", body.moduleTitle),
        "difficulty", body.difficulty),
        "generatedAt", time)

\* history: the content of the first successful generate-topic-content per key
RecordFirst(key, content) ==
    firstContent' = IF key \in DOMAIN firstContent THEN firstContent
                    ELSE KvSet(firstContent, key, content)

\* a handler that asks the provider again although the content is stored
CachedContent_Ignored(key) == {}

\* kv.get(contentKey), lines 490-492
CachedContent(key) == KvGet(kv, key)

\* a handler that answers a missing HF_TOKEN with placeholder content
NotConfiguredResponse_Fallback ==
    [status |-> 200, body |-> [content |-> {[explanation |-> "Content is not available yet"]}]]

\* the early return for a missing HF_TOKEN, lines 497-504
NotConfiguredResponse ==
    [status |-> 500,
     body |-> [error |-> "HuggingFace API key not configured. Please add HF_TOKEN to environment variables.",
               content |-> {}]]

\* the provider's answer leads to a stored content (lines 558-645): it is a
\* 2xx answer and the queries of the generated content can be iterated
Stores(reply, body) ==
    /\ reply.kind = "ok"
    /\ QueriesIterable(GeneratedContent(reply.data, body.topic, body.targetGoal))

\* lines 558-648: what the handler does with the provider's answer
ProviderOutcome(key, body, reply) ==
    IF reply.kind \in {"throws", "ok-not-json"}
    THEN \* the catch block of the fetch, lines 565-568
         /\ resp' = [status |-> 500, body |-> [error |-> "Failed to call HuggingFace API"]]
         /\ UNCHANGED <<kv, firstContent>>
    ELSE IF reply.kind = "http-error"
    THEN /\ resp' = [status |-> 500, body |-> [error |-> "HuggingFace API failed"]]
         /\ UNCHANGED <<kv, firstContent>>
    ELSE IF ~Stores(reply, body)
    THEN /\ resp' = [status |-> 500, body |-> [error |-> "Error generating content"]]
         /\ UNCHANGED <<kv, firstContent>>
    ELSE LET generated == GeneratedContent(reply.data, body.topic, body.targetGoal)
             content == TopicContent(generated, body, now)
         IN  /\ kv' = KvSet(kv, key, content)
             /\ resp' = [status |-> 200, body |-> [content |-> content]]
             /\ RecordFirst(key, content)

\* lines 488-504: the cache hit and the missing key, which end the request
\* before the provider is called
AnsweredWithoutProvider(key) ==
    LET existingContent == CachedContent(key)
    IN  /\ existingContent # {} \/ ~env.HF_TOKEN
        /\ NoFetch
        /\ kvCalls' = {KvCall("get", key)}
        /\ UNCHANGED kv
        /\ IF existingContent # {}
           THEN /\ resp' = [status |-> 200,
                            body |-> [content |-> CHOOSE v \in existingContent : TRUE]]
                /\ RecordFirst(key, CHOOSE v \in existingContent : TRUE)
           ELSE /\ resp' = NotConfiguredResponse
                /\ UNCHANGED firstContent

\* the request reaches the provider call
NeedsProvider(key) == CachedContent(key) = {} /\ env.HF_TOKEN

\* the handler run without interruption, for one request body
GenerateContentFor(authHeader, body) ==
    \/ RejectUnauthorized("POST /generate-topic-content", authHeader)
    \/ \E user \in verifyAuth(authHeader) :
         LET key == contentKey(user.id, body.moduleId, body.topic)
         IN  /\ Serve("POST /generate-topic-content", authHeader, body)
             /\ UNCHANGED <<users, nextId, signedUp, inflight, env, now, sumDeltas, appended>>
             /\ \/ AnsweredWithoutProvider(key)
                \/ /\ NeedsProvider(key)
                   /\ \E reply \in ProviderReplies :
                        /\ Fetch(reply)
                        /\ kvCalls' = {KvCall("get", key)} \cup
                                      (IF Stores(reply, body) THEN {KvCall("set", key)} ELSE {})
                        /\ ProviderOutcome(key, body, reply)

GenerateTopicContent(authHeader) ==
    \E body \in TopicBodies : GenerateContentFor(authHeader, body)

\* The handler awaits the provider between its cache check (line 490) and
\* its write (line 645); requests that overlap interleave at that await.
\* BeginGenerate runs a request up to the provider call.
BeginGenerate(authHeader, body) ==
    \/ RejectUnauthorized("POST /generate-topic-content", authHeader)
    \/ \E user \in verifyAuth(authHeader) :
         LET key == contentKey(user.id, body.moduleId, body.topic)
         IN  /\ Serve("POST /generate-topic-content", authHeader, body)
             /\ UNCHANGED <<users, nextId, signedUp, env, now, sumDeltas, appended>>
             /\ \/ AnsweredWithoutProvider(key) /\ UNCHANGED inflight
                \/ /\ NeedsProvider(key)
                   /\ Len(inflight) < MaxInflight
                   /\ inflight' = Append(inflight,
                          [auth |-> authHeader, body |-> body, key |-> key, done |-> FALSE])
                   /\ resp' = NoResponse
                   /\ NoFetch
                   /\ kvCalls' = {KvCall("get", key)}
                   /\ UNCHANGED <<kv, firstContent>>

\* CompleteGenerate resumes a request with the provider's answer.
CompleteGenerate(n) ==
    LET r == inflight[n]
    IN
    /\ ~r.done
    /\ inflight' = [inflight EXCEPT ![n].done = TRUE]
    /\ req' = Request("POST /generate-topic-content", r.auth, r.body)
    /\ \E reply \in ProviderReplies :
         /\ Fetch(reply)
         /\ kvCalls' = {KvCall("get", r.key)} \cup
                       (IF Stores(reply, r.body) THEN {KvCall("set", r.key)} ELSE {})
         /\ ProviderOutcome(r.key, r.body, reply)
    /\ UNCHANGED <<users, nextId, signedUp, served, env, now, sumDeltas, appended>>

\* the route for the path parameters moduleId and topic, which the client
\* encodes (api.ts line 91) and the router decodes
GetContentOf(authHeader, moduleId, topic) ==
    \/ RejectUnauthorized("GET /topic-content", authHeader)
    \/ \E user \in verifyAuth(authHeader) :
         LET content == KvGet(kv, contentKey(user.id, moduleId, topic))
         IN  /\ Serve("GET /topic-content", authHeader,
                               [moduleId |-> moduleId, topic |-> topic])
             /\ resp' = [status |-> 200, body |-> [content |-> content]]
             /\ NoFetch
             /\ kvCalls' = {KvCall("get", contentKey(user.id, moduleId, topic))}
             /\ UNCHANGED <<kv, users, nextId, signedUp, inflight, env, now, sumDeltas, firstContent, appended>>

GetTopicContent(authHeader) ==
    \E moduleId \in ModuleIds, topic \in Topics : GetContentOf(authHeader, moduleId, topic)

\* module ids and topics that contain the separator of the keys
SeparatorModuleIds == {"m1", "m1:a"}
SeparatorTopics == {"b", "a:b"}
SeparatorBodies ==
    [moduleId : SeparatorModuleIds, moduleTitle : {"Basics"}, topic : SeparatorTopics,
     difficulty : {"beginner"}, targetGoal : {"SRE"}]

----------------------------------------------------------------------------
(* POST /chat, GET /chat/history *)

HistoryLimit == 50

chatKey(userId) == "chat:" \o userId

ChatBodies == [message : {"how do closures work?"}, conversationHistory : {<<>>}]

\* what fetch() to the chat provider can yield, line 726-747: a thrown
\* network error, a non-2xx answer, a 2xx answer without choices, or a reply
ChatReplies ==
    { [kind |-> "throws"], [kind |-> "http-error"],
      [kind |-> "ok", data |-> [choices |-> <<>>]],
      [kind |-> "ok", data |-> [choices |-> <<[message |-> [content |-> "a closure is ..."]]>>]] }

\* kv.get(`chat:${user.id}`) || []
StoredChat(userId) ==
    IF chatKey(userId) \in DOMAIN kv THEN kv[chatKey(userId)] ELSE <<>>

\* a trim that is off by one pair: it lets 52 entries through
KeepLast_Late(chatHistory) ==
    IF Len(chatHistory) > HistoryLimit + 2
    THEN SubSeq(chatHistory, Len(chatHistory) - HistoryLimit + 1, Len(chatHistory))
    ELSE chatHistory

\* if (chatHistory.length > 50) chatHistory.splice(0, chatHistory.length - 50)
KeepLast(chatHistory) ==
    IF Len(chatHistory) > HistoryLimit
    THEN SubSeq(chatHistory, Len(chatHistory) - HistoryLimit + 1, Len(chatHistory))
    ELSE chatHistory

\* an append that stores the reply ahead of the message it answers
AppendChat_ReplyFirst(chatHistory, message, aiResponse, time) ==
    KeepLast(chatHistory \o
             << [role |-> "assistant", content |-> aiResponse, timestamp |-> time],
                [role |-> "user", content |-> message, timestamp |-> time] >>)

\* lines 750-759
AppendChat(chatHistory, message, aiResponse, time) ==
    KeepLast(chatHistory \o
             << [role |-> "user", content |-> message, timestamp |-> time],
                [role |-> "assistant", content |-> aiResponse, timestamp |-> time] >>)

profileKey(userId) == "profile:" \o userId
roadmapKey(userId) == "roadmap:" \o userId

\* lines 706-707: the profile and the roadmap are read for the prompt
ContextCalls(userId) == {KvCall("get", profileKey(userId)), KvCall("get", roadmapKey(userId))}

\* lines 750 and 761
HistoryCalls(userId) == {KvCall("get", chatKey(userId)), KvCall("set", chatKey(userId))}

\* the provider answered 2xx with a message (lines 740-747)
Replied(reply) == reply.kind = "ok" /\ Len(reply.data.choices) > 0

\* a missing key reported as an error
SetupResponse_Error ==
    [status |-> 500, body |-> [error |-> "OpenAI API key not configured"]]

\* lines 699-702
SetupResponse ==
    [status |-> 200,
     body |-> [response |-> "The AI chat assistant requires an OpenAI API key to be configured. Please add your OpenAI API key to use this feature.",
               requiresSetup |-> TRUE]]

\* a provider failure answered with a canned reply
ProviderFailedResponse_Fallback ==
    [status |-> 200, body |-> [response |-> "The assistant is unavailable, please try again later."]]

\* lines 742-746
ProviderFailedResponse ==
    [status |-> 500, body |-> [error |-> "Failed to get response from AI assistant"]]

PostChat(authHeader) ==
    \/ RejectUnauthorized("POST /chat", authHeader)
    \/ \E user \in verifyAuth(authHeader), body \in ChatBodies :
         /\ Serve("POST /chat", authHeader, body)
         /\ UNCHANGED <<users, nextId, signedUp, inflight, env, now, sumDeltas, firstContent>>
         /\ IF ~env.OPENAI_API_KEY
            THEN /\ resp' = SetupResponse
                 /\ NoFetch
                 /\ kvCalls' = {}
                 /\ UNCHANGED <<kv, appended>>
            ELSE \E reply \in ChatReplies :
                   /\ Fetch(reply)
                   /\ kvCalls' = ContextCalls(user.id) \cup
                                 (IF Replied(reply) THEN HistoryCalls(user.id) ELSE {})
                   /\ IF reply.kind = "http-error"
                      THEN /\ resp' = ProviderFailedResponse
                           /\ UNCHANGED <<kv, appended>>
                      ELSE IF ~Replied(reply)
                      THEN \* the catch-all of the handler
                           /\ resp' = [status |-> 500, body |-> [error |-> "TypeError"]]
                           /\ UNCHANGED <<kv, appended>>
                      ELSE LET aiResponse == reply.data.choices[1].message.content
                               key == chatKey(user.id)
                           IN  /\ (IF key \in DOMAIN appended THEN appended[key] ELSE 0) + 2
                                    <= MaxAppended
                               /\ kv' = KvSet(kv, key,
                                          AppendChat(StoredChat(user.id), body.message, aiResponse, now))
                               /\ appended' = KvSet(appended, key,
                                          (IF key \in DOMAIN appended THEN appended[key] ELSE 0) + 2)
                               /\ resp' = [status |-> 200, body |-> [response |-> aiResponse]]

GetChatHistory(authHeader) ==
    \/ RejectUnauthorized("GET /chat/history", authHeader)
    \/ \E user \in verifyAuth(authHeader) :
         /\ Serve("GET /chat/history", authHeader, EmptyObj)
         /\ resp' = [status |-> 200, body |-> [history |-> StoredChat(user.id)]]
         /\ NoFetch
         /\ kvCalls' = {KvCall("get", chatKey(user.id))}
         /\ UNCHANGED <<kv, users, nextId, signedUp, inflight, env, now, sumDeltas, firstContent, appended>>

----------------------------------------------------------------------------
(* POST /profile, GET /profile *)

TargetGoals ==
    { "", "Data Scientist", "Senior Data Scientist (ML)", "data scientist",
      "Full-Stack Developer", "DevOps Engineer",
      "Full-Stack Developer turned Data Scientist" }

\* a body that names another account as its owner
SpoofingBody ==
    [userId |-> "u2", email |-> "b@x.io", name |-> "Bob", targetGoal |-> "DevOps Engineer"]

\* onboarding bodies: a filled form, with or without a target goal, and an
\* empty one
ProfileBodies ==
    { [background |-> "student", currentRole |-> "intern", yearsOfExperience |-> 1,
       knownSkills |-> <<"html">>, preferredLanguage |-> "Python",
       learningPace |-> "steady", hoursPerWeek |-> 10, learningStyle |-> "visual",
       onboardingComplete |-> TRUE] @@ OptField("targetGoal", g) :
        g \in {{}} \cup {{t} : t \in TargetGoals} }
    \cup {EmptyObj, SpoofingBody}

\* a profile whose identity fields are taken from the body when it has them
BuildProfile_TrustsBody(user, body, time) ==
    [f \in DOMAIN body \cup {"userId", "email", "name", "createdAt", "updatedAt"} |->
       IF Has(body, f) THEN body[f]
       ELSE IF f = "userId" THEN user.id
       ELSE IF f = "email" THEN user.email
       ELSE IF f = "name" THEN user.name
       ELSE time]

\* lines 237-253
BuildProfile(user, body, time) ==
    LET p1 == [userId |-> user.id, email |-> user.email, name |-> user.name]
        p2 == PutOpt(p1, "background", Opt(body, "background"))
        p3 == PutOpt(p2, "currentRole", Opt(body, "currentRole"))
        p4 == PutOpt(p3, "yearsOfExperience", Opt(body, "yearsOfExperience"))
        p5 == Put(p4, "knownSkills",
                  IF Has(body, "knownSkills") THEN body.knownSkills ELSE <<>>)
        p6 == PutOpt(p5, "targetGoal", Opt(body, "targetGoal"))
        p7 == PutOpt(p6, "preferredLanguage", Opt(body, "preferredLanguage"))
        p8 == PutOpt(p7, "learningPace", Opt(body, "learningPace"))
        p9 == PutOpt(p8, "hoursPerWeek", Opt(body, "hoursPerWeek"))
        p10 == PutOpt(p9, "learningStyle", Opt(body, "learningStyle"))
        p11 == Put(p10, "onboardingComplete",
                   IF Has(body, "onboardingComplete") THEN body.onboardingComplete ELSE FALSE)
    IN  Put(Put(p11, "createdAt", time), "updatedAt", time)

PostProfile(authHeader) ==
    \/ RejectUnauthorized("POST /profile", authHeader)
    \/ \E user \in verifyAuth(authHeader), body \in ProfileBodies :
         LET profile == BuildProfile(user, body, now)
         IN  /\ Serve("POST /profile", authHeader, body)
             /\ kv' = KvSet(kv, profileKey(user.id), profile)
             /\ resp' = [status |-> 200, body |-> [success |-> TRUE, profile |-> profile]]
             /\ NoFetch
             /\ kvCalls' = {KvCall("set", profileKey(user.id))}
             /\ UNCHANGED <<users, nextId, signedUp, inflight, env, now, sumDeltas, firstContent, appended>>

\* a stub that lacks the onboarding flag
ProfileStub_NoFlag(user) == [userId |-> user.id, email |-> user.email, name |-> user.name]

\* lines 273-280
ProfileStub(user) ==
    [userId |-> user.id, email |-> user.email, name |-> user.name,
     onboardingComplete |-> FALSE]

GetProfile(authHeader) ==
    \/ RejectUnauthorized("GET /profile", authHeader)
    \/ \E user \in verifyAuth(authHeader) :
         LET profile == KvGet(kv, profileKey(user.id))
         IN  /\ Serve("GET /profile", authHeader, EmptyObj)
             /\ resp' = [status |-> 200,
                         body |-> [profile |->
                            IF profile = {} THEN ProfileStub(user)
                            ELSE CHOOSE v \in profile : TRUE]]
             /\ NoFetch
             /\ kvCalls' = {KvCall("get", profileKey(user.id))}
             /\ UNCHANGED <<kv, users, nextId, signedUp, inflight, env, now, sumDeltas, firstContent, appended>>

----------------------------------------------------------------------------
(* POST /generate-roadmap, GET /roadmap *)


\* the two hand-written templates (lines 899-1095), by their phases
Templates ==
    [k \in {"Data Scientist", "Full-Stack Developer"} |->
       IF k = "Data Scientist"
       THEN [phases |-> << [id |-> "phase-1", title |-> "Foundations", estimatedWeeks |-> 8],
                           [id |-> "phase-2", title |-> "Data Analysis & Visualization", estimatedWeeks |-> 6],
                           [id |-> "phase-3", title |-> "Machine Learning", estimatedWeeks |-> 10] >>,
             totalEstimatedWeeks |-> 24,
             skillsToMaster |-> <<"Python", "Statistics", "Machine Learning", "Data Visualization", "SQL">>]
       ELSE [phases |-> << [id |-> "phase-1", title |-> "Frontend Fundamentals", estimatedWeeks |-> 6],
                           [id |-> "phase-2", title |-> "Modern Frontend", estimatedWeeks |-> 8],
                           [id |-> "phase-3", title |-> "Backend Development", estimatedWeeks |-> 10] >>,
             totalEstimatedWeeks |-> 24,
             skillsToMaster |-> <<"React", "Node.js", "Express", "PostgreSQL", "MongoDB", "Docker", "AWS">>]]

\* Object.keys(templates), in insertion order
TemplateKeys == <<"Data Scientist", "Full-Stack Developer">>

\* String.prototype.includes
StrIncludes(str, sub) ==
    \E i \in 1..(Len(str) - Len(sub) + 1) : SubSeq(str, i, i + Len(sub) - 1) = sub

\* a selection that demands the goal to equal the template key
TemplateKeyFor_ExactMatch(goal) ==
    IF goal = "Data Scientist" THEN "Data Scientist" ELSE "Full-Stack Developer"

\* Object.keys(templates).find(key => goal.includes(key)) || 'Full-Stack Developer'
TemplateKeyFor(goal) ==
    LET hits == { i \in 1..Len(TemplateKeys) : StrIncludes(goal, TemplateKeys[i]) }
    IN  IF hits = {} THEN "Full-Stack Developer" ELSE TemplateKeys[Min(hits)]

\* lines 894-1108
generateTemplateRoadmap(profile, time) ==
    LET goal == IF TruthyStr(Opt(profile, "targetGoal")) THEN profile.targetGoal
                ELSE "Full-Stack Developer"
    IN  [userId |-> profile.userId, targetGoal |-> goal,
         content |-> Templates[TemplateKeyFor(goal)],
         createdAt |-> time, lastUpdated |-> time, isTemplate |-> TRUE]

\* what fetch() to the roadmap provider can yield: a thrown network error, a
\* non-2xx answer, or a 2xx answer whose message is or is not JSON
RoadmapReplies ==
    { [kind |-> "throws"], [kind |-> "http-error"],
      [kind |-> "ok", data |-> [choices |-> <<>>]] }
    \cup { [kind |-> "ok", data |-> [choices |-> <<[message |-> [content |-> t]]>>]] :
             t \in {RoadmapJson, "I cannot help with that"} }

\* a fallback that returns the template without storing it
ReturnTemplate_NotStored(user, profile) ==
    /\ resp' = [status |-> 200, body |-> [roadmap |-> generateTemplateRoadmap(profile, now)]]
    /\ kvCalls' = {KvCall("get", profileKey(user.id))}
    /\ UNCHANGED kv

\* the template is stored and returned (lines 307-309 and 379-381)
ReturnTemplate(user, profile) ==
    LET templateRoadmap == generateTemplateRoadmap(profile, now)
    IN  /\ kv' = KvSet(kv, roadmapKey(user.id), templateRoadmap)
        /\ resp' = [status |-> 200, body |-> [roadmap |-> templateRoadmap]]
        /\ kvCalls' = {KvCall("get", profileKey(user.id)), KvCall("set", roadmapKey(user.id))}

\* a missing profile reported as not found
NoProfileResponse_NotFound == [status |-> 404, body |-> [error |-> "Profile not found"]]

\* line 300
NoProfileResponse ==
    [status |-> 400,
     body |-> [error |-> "Profile not found. Please complete onboarding first."]]

GenerateRoadmap(authHeader) ==
    \/ RejectUnauthorized("POST /generate-roadmap", authHeader)
    \/ \E user \in verifyAuth(authHeader) :
         LET stored == KvGet(kv, profileKey(user.id))
         IN  /\ Serve("POST /generate-roadmap", authHeader, EmptyObj)
             /\ UNCHANGED <<users, nextId, signedUp, inflight, env, now, sumDeltas, firstContent, appended>>
             /\ IF stored = {}
                THEN /\ resp' = NoProfileResponse
                     /\ NoFetch
                     /\ kvCalls' = {KvCall("get", profileKey(user.id))}
                     /\ UNCHANGED kv
                ELSE LET profile == CHOOSE v \in stored : TRUE
                     IN  IF ~env.OPENAI_API_KEY
                         THEN NoFetch /\ ReturnTemplate(user, profile)
                         ELSE \E reply \in RoadmapReplies :
                                /\ Fetch(reply)
                                /\ IF reply.kind = "http-error"
                                   THEN ReturnTemplate(user, profile)
                                   ELSE LET parsed ==
                                              IF reply.kind = "throws" \/ Len(reply.data.choices) = 0
                                              THEN {}
                                              ELSE JsonParse(reply.data.choices[1].message.content)
                                        IN  IF parsed = {}
                                            THEN \* the catch-all of the handler
                                                 /\ resp' = [status |-> 500, body |-> [error |-> "Error"]]
                                                 /\ kvCalls' = {KvCall("get", profileKey(user.id))}
                                                 /\ UNCHANGED kv
                                            ELSE LET roadmap ==
                                                       PutOpt([userId |-> user.id,
                                                               content |-> CHOOSE o \in parsed : TRUE,
                                                               createdAt |-> now, lastUpdated |-> now],
                                                              "targetGoal", Opt(profile, "targetGoal"))
                                                 IN  /\ kv' = KvSet(kv, roadmapKey(user.id), roadmap)
                                                     /\ resp' = [status |-> 200, body |-> [roadmap |-> roadmap]]
                                                     /\ kvCalls' = {KvCall("get", profileKey(user.id)),
                                                                     KvCall("set", roadmapKey(user.id))}

GetRoadmap(authHeader) ==
    \/ RejectUnauthorized("GET /roadmap", authHeader)
    \/ \E user \in verifyAuth(authHeader) :
         /\ Serve("GET /roadmap", authHeader, EmptyObj)
         /\ resp' = [status |-> 200, body |-> [roadmap |-> KvGet(kv, roadmapKey(user.id))]]
         /\ NoFetch
         /\ kvCalls' = {KvCall("get", roadmapKey(user.id))}
         /\ UNCHANGED <<kv, users, nextId, signedUp, inflight, env, now, sumDeltas, firstContent, appended>>

----------------------------------------------------------------------------
(* POST /signup, POST /delete-user and the identity provider's admin API *)

SignupEmails == {"", "a@x.io", "c@x.io"}
SignupPasswords == {"", "secret1"}
SignupNames == {"", "Cy"}

\* request bodies: no field at all, or all three (an empty string is falsy,
\* as an absent field is)
SignupBodies ==
    {EmptyObj} \cup [email : SignupEmails, password : SignupPasswords, name : SignupNames]

\* the account ids the provider issues
AccountId(n) == "u" \o ToString(n)

\* existingUsers.users.find(u => u.email === email); listUsers may fail, and
\* the search is then skipped
FindByEmail(listed, email) == IF listed THEN { u \in users : u.email = email } ELSE {}

\* the account stored by a createUser call with email_confirm: false
CreatedUser_Unconfirmed(id, email, name) ==
    [id |-> id, email |-> email, name |-> name, confirmed |-> FALSE]

\* the account stored by createUser({email, password, user_metadata: {name},
\* email_confirm: true})
CreatedUser(id, email, name) ==
    [id |-> id, email |-> email, name |-> name, confirmed |-> TRUE]

\* the provider's error for an email that is registered
AlreadyRegistered == "User already registered"

\* the provider's error for a creation it does not carry out
CreationRejected == "Database error creating new user"

\* error.message.includes('already registered')
CreateErrorResponse(message) ==
    IF message = AlreadyRegistered
    THEN [status |-> 400,
          body |-> [error |-> "This email is already registered. Please try signing in instead.",
                    userExists |-> TRUE, needsLogin |-> TRUE]]
    ELSE [status |-> 400, body |-> [error |-> message]]

UserExistsResponse ==
    [status |-> 400,
     body |-> [error |-> "A user with this email already exists. Please sign in instead.",
               userExists |-> TRUE, needsLogin |-> TRUE]]

\* supabase.auth.admin.createUser on the registry reg, and the response the
\* handler builds from its result
CreateUser(reg, email, name) ==
    IF \E u \in reg : u.email = email
    THEN /\ resp' = CreateErrorResponse(AlreadyRegistered)
         /\ users' = reg
         /\ UNCHANGED <<nextId, signedUp>>
    ELSE \/ /\ resp' = CreateErrorResponse(CreationRejected)
            /\ users' = reg
            /\ UNCHANGED <<nextId, signedUp>>
         \/ /\ nextId <= MaxAccounts
            /\ LET user == CreatedUser(AccountId(nextId), email, name)
               IN  /\ users' = reg \cup {user}
                   /\ signedUp' = signedUp \cup {user}
                   /\ resp' = [status |-> 200, body |-> [success |-> TRUE, user |-> user]]
            /\ nextId' = nextId + 1

\* a check that takes every account found for one awaiting confirmation
IsConfirmed_Never(existingUser) == FALSE

\* existingUser.email_confirmed_at, line 94
IsConfirmed(existingUser) == existingUser.confirmed

Signup(body) ==
    /\ Serve("POST /signup", "", body)
    /\ NoFetch
    /\ kvCalls' = {}
    /\ UNCHANGED <<kv, inflight, env, now, sumDeltas, firstContent, appended>>
    /\ IF ~(TruthyStr(Opt(body, "email")) /\ TruthyStr(Opt(body, "password"))
              /\ TruthyStr(Opt(body, "name")))
       THEN /\ resp' = [status |-> 400,
                        body |-> [error |-> "Email, password, and name are required"]]
            /\ UNCHANGED <<users, nextId, signedUp>>
       ELSE \E listed \in BOOLEAN :
              LET existing == FindByEmail(listed, body.email)
              IN  IF \E u \in existing : IsConfirmed(u)
                  THEN /\ resp' = UserExistsResponse
                       /\ UNCHANGED <<users, nextId, signedUp>>
                  ELSE IF existing # {}
                  THEN \* deleteUser of the unconfirmed account; its result is ignored
                       \E deleted \in BOOLEAN :
                          CreateUser(IF deleted THEN users \ existing ELSE users,
                                     body.email, body.name)
                  ELSE CreateUser(users, body.email, body.name)

\* a body that cannot be parsed as JSON
SignupUnparsable ==
    /\ Serve("POST /signup", "", EmptyObj)
    /\ resp' = [status |-> 400, body |-> [error |-> "Invalid request body"]]
    /\ NoFetch
    /\ kvCalls' = {}
    /\ UNCHANGED <<kv, users, nextId, signedUp, inflight, env, now, sumDeltas, firstContent, appended>>

DeleteUserBodies == {EmptyObj} \cup [email : {"a@x.io", "c@x.io", "d@x.io"}]

DeleteUser(body) ==
    /\ Serve("POST /delete-user", "", body)
    /\ NoFetch
    /\ kvCalls' = {}
    /\ UNCHANGED <<kv, nextId, signedUp, inflight, env, now, sumDeltas, firstContent, appended>>
    /\ IF ~TruthyStr(Opt(body, "email"))
       THEN /\ resp' = [status |-> 400, body |-> [error |-> "Email is required"]]
            /\ UNCHANGED users
       ELSE \E listed \in BOOLEAN :
              IF ~listed
              THEN /\ resp' = [status |-> 500, body |-> [error |-> "Failed to find user"]]
                   /\ UNCHANGED users
              ELSE LET found == FindByEmail(TRUE, body.email)
                   IN  IF found = {}
                       THEN /\ resp' = [status |-> 404,
                                        body |-> [error |-> "No user found with this email address"]]
                            /\ UNCHANGED users
                       ELSE \/ /\ resp' = [status |-> 400, body |-> [error |-> "Database error deleting user"]]
                               /\ UNCHANGED users
                            \/ /\ users' = users \ found
                               /\ resp' = [status |-> 200,
                                           body |-> [success |-> TRUE,
                                                     message |-> "User account has been deleted successfully"]]

\* Environment: a visitor registers with the provider directly; the account
\* stays unconfirmed until its email is verified
ClientSignUp(email) ==
    /\ ~ \E u \in users : u.email = email
    /\ nextId <= MaxAccounts
    /\ users' = users \cup {CreatedUser_Unconfirmed(AccountId(nextId), email, "Cy")}
    /\ nextId' = nextId + 1
    /\ Idle
    /\ UNCHANGED <<kv, signedUp, inflight, env, now, sumDeltas, firstContent, appended>>

----------------------------------------------------------------------------
(* POST /assessment, POST /challenge *)

AssessmentModuleIds == {"m1", "m2"}
AssessmentBodies == [moduleId : AssessmentModuleIds, score : {40, 80}, results : {<<>>}]

\* `assessment:${user.id}:${moduleId}:${Date.now()}`
assessmentKey(userId, moduleId, time) ==
    "assessment:" \o userId \o ":" \o moduleId \o ":" \o ToString(time)

PostAssessment(authHeader) ==
    \/ RejectUnauthorized("POST /assessment", authHeader)
    \/ \E user \in verifyAuth(authHeader), body \in AssessmentBodies :
         LET assessment == [userId |-> user.id, moduleId |-> body.moduleId,
                            score |-> body.score, results |-> body.results,
                            completedAt |-> now]
             key == assessmentKey(user.id, body.moduleId, now)
         IN  /\ Serve("POST /assessment", authHeader, body)
             /\ kv' = KvSet(kv, key, assessment)
             /\ resp' = [status |-> 200, body |-> [success |-> TRUE, assessment |-> assessment]]
             /\ NoFetch
             /\ kvCalls' = {KvCall("set", key)}
             /\ UNCHANGED <<users, nextId, signedUp, inflight, env, now, sumDeltas, firstContent, appended>>

\* challenge ids a client may send; the second names another user
ChallengeBodies == [challengeId : {"c1", "u2:c1"}, code : {"print(1)"}]

challengeKey(userId, challengeId) == "challenge:" \o userId \o ":" \o challengeId

PostChallenge(authHeader) ==
    \/ RejectUnauthorized("POST /challenge", authHeader)
    \/ \E user \in verifyAuth(authHeader), body \in ChallengeBodies :
         LET challenge == [userId |-> user.id, challengeId |-> body.challengeId,
                           code |-> body.code, completedAt |-> now]
             key == challengeKey(user.id, body.challengeId)
         IN  /\ Serve("POST /challenge", authHeader, body)
             /\ kv' = KvSet(kv, key, challenge)
             /\ resp' = [status |-> 200, body |-> [success |-> TRUE, challenge |-> challenge]]
             /\ NoFetch
             /\ kvCalls' = {KvCall("set", key)}
             /\ UNCHANGED <<users, nextId, signedUp, inflight, env, now, sumDeltas, firstContent, appended>>

----------------------------------------------------------------------------
(* Initial state and specifications *)

Init ==
    /\ kv = EmptyObj
    /\ users = InitialUsers
    /\ nextId = 3
    /\ env = [OPENAI_API_KEY |-> FALSE, HF_TOKEN |-> FALSE]
    /\ now = 0
    /\ req = NoRequest
    /\ resp = NoResponse
    /\ fetched = 0
    /\ answered = "none"
    /\ sumDeltas = EmptyObj
    /\ firstContent = EmptyObj
    /\ appended = EmptyObj
    /\ signedUp = {}
    /\ kvCalls = {}
    /\ served = 0
    /\ inflight = <<>>

\* the headers of the explorations that follow one signed-in user
OneUserHeaders == {"", "Bearer tok-u1", "Bearer expired"}

PostProgressStep == \E h \in OneUserHeaders : PostProgress(h)
GetProgressStep == \E h \in OneUserHeaders : GetProgress(h)

NextProgress == Tick \/ PostProgressStep \/ GetProgressStep

SpecProgress == Init /\ [][NextProgress]_vars

ReadProgressStep == \E h \in OneUserHeaders, body \in ProgressBodies : ReadProgress(h, body)
WriteProgressStep == \E n \in 1..Len(inflight) : WriteProgress(n)

NextRace == ReadProgressStep \/ WriteProgressStep

MergeProgressStep == \E h \in OneUserHeaders, body \in MergeBodies : UpdateProgress(h, body)

NextMerge == MergeProgressStep \/ GetProgressStep

\* POST /progress requests that carry the optional fields
SpecMerge == Init /\ [][NextMerge]_vars

\* overlapping POST /progress requests
SpecRace == Init /\ [][NextRace]_vars

PostAchievementsStep == \E h \in AuthHeaders : PostAchievements(h)
GetAchievementsStep == \E h \in AuthHeaders : GetAchievements(h)

NextAchievements == PostAchievementsStep \/ GetAchievementsStep

SpecAchievements == Init /\ [][NextAchievements]_vars

ReadAchievementsStep ==
    \E h \in OneUserHeaders, body \in AchievementBodies : ReadAchievements(h, body)
WriteAchievementsStep == \E n \in 1..Len(inflight) : WriteAchievements(n)

NextUnlockRace == ReadAchievementsStep \/ WriteAchievementsStep

\* overlapping POST /achievements requests; a request that is resumed right
\* after its read is a sequential one
SpecUnlockRace == Init /\ [][NextUnlockRace]_vars

GenerateTopicContentStep == \E h \in OneUserHeaders : GenerateTopicContent(h)
GetTopicContentStep == \E h \in OneUserHeaders : GetTopicContent(h)
SetHfToken == SetEnv("HF_TOKEN")

NextTopic == Tick \/ GenerateTopicContentStep \/ GetTopicContentStep \/ SetHfToken

SpecTopic == Init /\ [][NextTopic]_vars

GenerateSeparatorStep ==
    \E h \in OneUserHeaders, body \in SeparatorBodies : GenerateContentFor(h, body)
GetSeparatorStep ==
    \E h \in OneUserHeaders, moduleId \in SeparatorModuleIds, topic \in SeparatorTopics :
       GetContentOf(h, moduleId, topic)

NextSeparator == SetHfToken \/ GenerateSeparatorStep \/ GetSeparatorStep

\* topic-content requests whose module ids and topics contain ':'
SpecSeparator == Init /\ [][NextSeparator]_vars

\* the overlapping requests ask for one topic, at either difficulty
OverlapBodies == { body \in TopicBodies : body.topic = "t1" }

BeginGenerateStep == \E h \in OneUserHeaders, body \in OverlapBodies : BeginGenerate(h, body)
CompleteGenerateStep == \E n \in 1..Len(inflight) : CompleteGenerate(n)

NextOverlap == SetHfToken \/ BeginGenerateStep \/ CompleteGenerateStep

SpecOverlap == Init /\ [][NextOverlap]_vars

PostChatStep == \E h \in OneUserHeaders : PostChat(h)
GetChatHistoryStep == \E h \in OneUserHeaders : GetChatHistory(h)
SetOpenAiKey == SetEnv("OPENAI_API_KEY")

NextChat == Tick \/ PostChatStep \/ GetChatHistoryStep \/ SetOpenAiKey

SpecChat == Init /\ [][NextChat]_vars

PostProfileStep == \E h \in OneUserHeaders : PostProfile(h)
GetProfileStep == \E h \in OneUserHeaders : GetProfile(h)
GenerateRoadmapStep == \E h \in OneUserHeaders : GenerateRoadmap(h)
GetRoadmapStep == \E h \in OneUserHeaders : GetRoadmap(h)

NextRoadmap ==
    Tick \/ SetOpenAiKey \/ PostProfileStep \/ GetProfileStep
         \/ GenerateRoadmapStep \/ GetRoadmapStep

SpecRoadmap == Init /\ [][NextRoadmap]_vars

SignupStep == SignupUnparsable \/ \E body \in SignupBodies : Signup(body)
DeleteUserStep == \E body \in DeleteUserBodies : DeleteUser(body)
ClientSignUpStep == ClientSignUp("c@x.io")

NextSignup == SignupStep \/ DeleteUserStep \/ ClientSignUpStep

SpecSignup == Init /\ [][NextSignup]_vars

PostAssessmentStep == \E h \in OneUserHeaders : PostAssessment(h)

NextAssessment == Tick \/ PostAssessmentStep

SpecAssessment == Init /\ [][NextAssessment]_vars

\* A store after both users went through onboarding and u2 started a module
OnboardedStore ==
    LET form == [background |-> "student", targetGoal |-> "Data Scientist",
                 onboardingComplete |-> TRUE]
        owner(id) == CHOOSE u \in InitialUsers : u.id = id
        started == [moduleId |-> "m1", status |-> "in-progress", timeSpent |-> 1]
    IN  KvSet(KvSet(KvSet(EmptyObj,
            profileKey("u1"), BuildProfile(owner("u1"), form, 0)),
            profileKey("u2"), BuildProfile(owner("u2"), form, 0)),
            progressKey("u2", "m1"), MergeProgress("u2", "m1", started, EmptyObj, 0))

InitGate ==
    /\ kv = OnboardedStore
    /\ users = InitialUsers
    /\ nextId = 3
    /\ env = [OPENAI_API_KEY |-> FALSE, HF_TOKEN |-> FALSE]
    /\ now = 0
    /\ req = NoRequest
    /\ resp = NoResponse
    /\ fetched = 0
    /\ answered = "none"
    /\ sumDeltas = KvSet(EmptyObj, progressKey("u2", "m1"), 1)
    /\ firstContent = EmptyObj
    /\ appended = EmptyObj
    /\ signedUp = {}
    /\ kvCalls = {}
    /\ served = 0
    /\ inflight = <<>>

\* every route behind the authentication gate, for MaxRequests requests
NextGate ==
    \/ SetHfToken
    \/ SetOpenAiKey
    \/ \E h \in AuthHeaders : served < MaxRequests /\ PostProfile(h)
    \/ \E h \in AuthHeaders : served < MaxRequests /\ GetProfile(h)
    \/ \E h \in AuthHeaders : served < MaxRequests /\ GenerateRoadmap(h)
    \/ \E h \in AuthHeaders : served < MaxRequests /\ GetRoadmap(h)
    \/ \E h \in AuthHeaders : served < MaxRequests /\ PostProgress(h)
    \/ \E h \in AuthHeaders : served < MaxRequests /\ GetProgress(h)
    \/ \E h \in AuthHeaders : served < MaxRequests /\ GenerateTopicContent(h)
    \/ \E h \in AuthHeaders : served < MaxRequests /\ GetTopicContent(h)
    \/ \E h \in AuthHeaders : served < MaxRequests /\ PostChat(h)
    \/ \E h \in AuthHeaders : served < MaxRequests /\ GetChatHistory(h)
    \/ \E h \in AuthHeaders : served < MaxRequests /\ PostAssessment(h)
    \/ \E h \in AuthHeaders : served < MaxRequests /\ PostChallenge(h)
    \/ \E h \in AuthHeaders : served < MaxRequests /\ GetAchievements(h)
    \/ \E h \in AuthHeaders : served < MaxRequests /\ PostAchievements(h)

SpecGate == InitGate /\ [][NextGate]_vars

\* A store after u1 used every feature once, at time 0, while u2 used none
PopulatedStore ==
    LET form == [background |-> "student", targetGoal |-> "Data Scientist",
                 onboardingComplete |-> TRUE]
        owner == CHOOSE u \in InitialUsers : u.id = "u1"
        profile == BuildProfile(owner, form, 0)
        started == [moduleId |-> "m1", status |-> "in-progress", timeSpent |-> 1]
        asked == [moduleId |-> "m1", moduleTitle |-> "Basics", topic |-> "t1",
                  difficulty |-> "beginner", targetGoal |-> "SRE"]
        answer == [choices |-> <<[message |-> [content |-> JsonWithQueries]]>>]
    IN  [key \in {profileKey("u1"), roadmapKey("u1"), progressKey("u1", "m1"),
                  contentKey("u1", "m1", "t1"), chatKey("u1"), achievementsKey("u1")} |->
           IF key = profileKey("u1") THEN profile
           ELSE IF key = roadmapKey("u1") THEN generateTemplateRoadmap(profile, 0)
           ELSE IF key = progressKey("u1", "m1")
           THEN MergeProgress("u1", "m1", started, EmptyObj, 0)
           ELSE IF key = contentKey("u1", "m1", "t1")
           THEN TopicContent(GeneratedContent(answer, "t1", "SRE"), asked, 0)
           ELSE IF key = chatKey("u1")
           THEN AppendChat(<<>>, "how do closures work?", "a closure is ...", 0)
           ELSE Unlock(DefaultAchievements, "first-module", 400)]

InitReads ==
    /\ kv = PopulatedStore
    /\ users = InitialUsers
    /\ nextId = 3
    /\ env = [OPENAI_API_KEY |-> FALSE, HF_TOKEN |-> FALSE]
    /\ now = 0
    /\ req = NoRequest
    /\ resp = NoResponse
    /\ fetched = 0
    /\ answered = "none"
    /\ sumDeltas = KvSet(EmptyObj, progressKey("u1", "m1"), 1)
    /\ firstContent = KvSet(EmptyObj, contentKey("u1", "m1", "t1"),
                            PopulatedStore[contentKey("u1", "m1", "t1")])
    /\ appended = KvSet(EmptyObj, chatKey("u1"), 2)
    /\ signedUp = {}
    /\ kvCalls = {}
    /\ served = 0
    /\ inflight = <<>>

\* every GET route, called by the user who has records, by the user who has
\* none and without a valid token
NextReads ==
    \/ Tick
    \/ SetHfToken
    \/ SetOpenAiKey
    \/ GetHealth
    \/ GetTest
    \/ \E h \in AuthHeaders : GetProfile(h)
    \/ \E h \in AuthHeaders : GetRoadmap(h)
    \/ \E h \in AuthHeaders : GetProgress(h)
    \/ \E h \in AuthHeaders : GetTopicContent(h)
    \/ \E h \in AuthHeaders : GetChatHistory(h)
    \/ \E h \in AuthHeaders : GetAchievements(h)

SpecReads == InitReads /\ [][NextReads]_vars

----------------------------------------------------------------------------
(* Progress claims *)

\* a step that serves a request to the route
Served(route) == req'.route = route

\* a POST /progress request that was authenticated and stored its merge
ProgressUpdated == Served("POST /progress") /\ resp'.status = 200

\* the key addressed by the last request, a POST /progress
ReqProgressKey ==
    progressKey((CHOOSE u \in verifyAuth(req.auth) : TRUE).id, req.body.moduleId)

\* C1: after any sequence of sequential POST /progress updates to one
\* (user, module), starting from no stored record, the stored timeSpent is
\* the sum of the timeSpent deltas submitted (an omitted timeSpent counts 0).
C1_TimeSpentIsSumOfDeltas ==
    /\ DOMAIN sumDeltas = DOMAIN kv
    /\ \A key \in DOMAIN kv : kv[key].timeSpent = sumDeltas[key]

\* C1 witness: a record whose total 2 was reached by a last delta of 1,
\* that is by at least two updates.
C1_Witness ==
    /\ req.route = "POST /progress" /\ resp.status = 200
    /\ Opt(req.body, "timeSpent") = {1}
    /\ kv[ReqProgressKey].timeSpent = 2

\* C2: an update that supplies no status keeps the stored status, or stores
\* 'not-started' when there was no record; a supplied status replaces it.
C2_StatusKeptOrReplaced ==
    [][ProgressUpdated =>
          LET key == ReqProgressKey'
          IN  kv'[key].status =
                IF Has(req'.body, "status") THEN req'.body.status
                ELSE IF key \in DOMAIN kv THEN kv[key].status
                ELSE "not-started"]_vars

\* C2 witness: the last update supplied no status and the record is still
\* 'completed'.
C2_Witness ==
    /\ req.route = "POST /progress" /\ resp.status = 200
    /\ ~Has(req.body, "status")
    /\ Opt(req.body, "timeSpent") = {1}
    /\ kv[ReqProgressKey].status = "completed"
    /\ kv[ReqProgressKey].timeSpent = 2

\* C3: once completedAt is set, an update whose status is absent or not
\* 'completed' leaves completedAt as it was.
C3_CompletedAtNeverCleared ==
    [][ProgressUpdated =>
          LET key == ReqProgressKey'
          IN  (/\ key \in DOMAIN kv
               /\ Has(kv[key], "completedAt")
               /\ Opt(req'.body, "status") # {"completed"})
              => (/\ Has(kv'[key], "completedAt")
                  /\ kv'[key].completedAt = kv[key].completedAt)]_vars

\* C3 witness: the last update moved a completed module to 'in-progress' at a
\* later time, and the completion time 0 is still stored.
C3_Witness ==
    /\ req.route = "POST /progress" /\ resp.status = 200
    /\ Opt(req.body, "status") = {"in-progress"}
    /\ kv[ReqProgressKey].status = "in-progress"
    /\ Opt(kv[ReqProgressKey], "completedAt") = {0}
    /\ kv[ReqProgressKey].lastUpdated = 1

\* C4: completedAt is set only on the first transition to 'completed': once
\* set, no later update changes it, one that supplies 'completed' again
\* included.
C4_CompletedAtSetOnce ==
    [][ProgressUpdated =>
          LET key == ReqProgressKey'
          IN  (key \in DOMAIN kv /\ Has(kv[key], "completedAt"))
              => (/\ Has(kv'[key], "completedAt")
                  /\ kv'[key].completedAt = kv[key].completedAt)]_vars

----------------------------------------------------------------------------
(* Achievement claims *)

\* a POST /achievements request that was authenticated
AchievementPosted == Served("POST /achievements") /\ resp'.status = 200

\* the key addressed by the last request, a POST /achievements
ReqAchievementsKey == achievementsKey((CHOOSE u \in verifyAuth(req.auth) : TRUE).id)

\* C5: achievement unlock is idempotent: after a POST /achievements the id
\* is unlocked, and a POST /achievements for an id that is already unlocked
\* (the second of two requests with the same id, whatever its xp) leaves the
\* stored xp, level and unlocked list as they were and returns that record.
C5_UnlockIdempotent ==
    [][AchievementPosted =>
          LET key == ReqAchievementsKey'
              id == req'.body.achievementId
          IN  /\ Includes(kv'[key].unlocked, id)
              /\ (key \in DOMAIN kv /\ Includes(kv[key].unlocked, id))
                 => (/\ kv'[key] = kv[key]
                     /\ resp'.body.achievements = kv[key])]_vars

\* C5 witness: the last request named the only unlocked id with an xp other
\* than the one stored: it was a repeated unlock.
C5_Witness ==
    /\ req.route = "POST /achievements" /\ resp.status = 200
    /\ kv[ReqAchievementsKey].unlocked = <<req.body.achievementId>>
    /\ kv[ReqAchievementsKey].xp = 700
    /\ req.body.xp = 400

\* C6: every stored achievements record, and the record a request returns
\* (the default one when none is stored), has level = floor(xp / 1000) + 1.
C6_LevelMatchesXp ==
    /\ \A key \in DOMAIN kv : kv[key].level = (kv[key].xp \div 1000) + 1
    /\ (resp.status = 200 /\ Has(resp.body, "achievements"))
       => resp.body.achievements.level = (resp.body.achievements.xp \div 1000) + 1

\* C6 witness: both users hold two unlocked ids; one has crossed a level
\* boundary upwards and the other holds a negative total.
C6_Witness ==
    /\ achievementsKey("u1") \in DOMAIN kv /\ achievementsKey("u2") \in DOMAIN kv
    /\ kv[achievementsKey("u1")].xp = 1100 /\ kv[achievementsKey("u1")].level = 2
    /\ kv[achievementsKey("u2")].xp = -600 /\ kv[achievementsKey("u2")].level = 0

----------------------------------------------------------------------------
(* Topic-content claims *)

\* a POST /generate-topic-content request that was authenticated
TopicRequested == Served("POST /generate-topic-content") /\ resp'.status # 401

\* the key addressed by the last request, a POST /generate-topic-content
ReqContentKey ==
    contentKey((CHOOSE u \in verifyAuth(req.auth) : TRUE).id, req.body.moduleId, req.body.topic)

\* C7: once a POST /generate-topic-content for (userId, moduleId, topic) has
\* succeeded, every later one for the same triple returns the content of the
\* first and calls no provider, whatever its other body fields and whether or
\* not the provider key is configured.
C7_TopicContentReadThrough ==
    [][TopicRequested =>
          LET key == ReqContentKey'
          IN  key \in DOMAIN firstContent
              => (/\ resp'.status = 200
                  /\ resp'.body.content = firstContent[key]
                  /\ fetched' = 0
                  /\ kv' = kv)]_vars

\* C7 witness: a request served from the cache at a later time, with the
\* provider key removed and with a difficulty other than the stored one.
C7_Witness ==
    /\ req.route = "POST /generate-topic-content" /\ resp.status = 200
    /\ fetched = 0
    /\ ~env.HF_TOKEN
    /\ resp.body.content = firstContent[ReqContentKey]
    /\ resp.body.content.difficulty # req.body.difficulty
    /\ resp.body.content.generatedAt < now

----------------------------------------------------------------------------
(* Chat claims *)

IsChatKey(key) == Len(key) >= 5 /\ SubSeq(key, 1, 5) = "chat:"

\* C8: in every reachable state every stored chat history has at most 50
\* entries, however many POST /chat calls have appended to it.
C8_ChatHistoryAtMost50 ==
    \A key \in DOMAIN kv : IsChatKey(key) => Len(kv[key]) <= 50

\* C8 witness: 52 entries were appended to a history and 50 are stored.
C8_Witness ==
    /\ req.route = "POST /chat" /\ resp.status = 200
    /\ chatKey("u1") \in DOMAIN appended
    /\ appended[chatKey("u1")] = 52
    /\ Len(kv[chatKey("u1")]) = 50

----------------------------------------------------------------------------
(* Roadmap claims *)

\* the goal holds the 14 characters "Data Scientist" at some position
ContainsDataScientist(goal) ==
    \E i \in 1..Len(goal) : i + 13 <= Len(goal) /\ SubSeq(goal, i, i + 13) = "Data Scientist"

IsDataScientistTemplate(content) ==
    /\ content = Templates["Data Scientist"]
    /\ content.phases[1].title = "Foundations"
    /\ content.skillsToMaster[1] = "Python"

IsFullStackTemplate(content) ==
    /\ content = Templates["Full-Stack Developer"]
    /\ content.phases[1].title = "Frontend Fundamentals"
    /\ content.skillsToMaster[1] = "React"

\* C9: with no roadmap provider key configured and a stored profile,
\* POST /generate-roadmap returns and stores the 'Data Scientist' template
\* when the profile's targetGoal contains 'Data Scientist' and the
\* 'Full-Stack Developer' template otherwise (empty or missing goal
\* included); the template is a function of the profile's goal.
C9_TemplateByGoal ==
    [][Served("POST /generate-roadmap") =>
          \A user \in verifyAuth(req'.auth) :
             (~env.OPENAI_API_KEY /\ profileKey(user.id) \in DOMAIN kv)
             => LET profile == kv[profileKey(user.id)]
                    roadmap == resp'.body.roadmap
                IN  /\ resp'.status = 200
                    /\ fetched' = 0
                    /\ kv'[roadmapKey(user.id)] = roadmap
                    /\ roadmap.isTemplate
                    /\ IF Has(profile, "targetGoal") /\ ContainsDataScientist(profile.targetGoal)
                       THEN IsDataScientistTemplate(roadmap.content)
                       ELSE IsFullStackTemplate(roadmap.content)]_vars

\* C9 witness: without a provider key, a profile whose goal merely contains
\* 'Data Scientist' was given the Data Scientist template.
C9_Witness ==
    /\ req.route = "POST /generate-roadmap" /\ resp.status = 200
    /\ ~env.OPENAI_API_KEY
    /\ Opt(kv[profileKey("u1")], "targetGoal") = {"Senior Data Scientist (ML)"}
    /\ kv[roadmapKey("u1")] = resp.body.roadmap
    /\ IsDataScientistTemplate(resp.body.roadmap.content)

----------------------------------------------------------------------------
(* Signup claims *)

\* a POST /signup request with non-empty email, password and name
ValidSignup ==
    /\ Served("POST /signup")
    /\ TruthyStr(Opt(req'.body, "email"))
    /\ TruthyStr(Opt(req'.body, "password"))
    /\ TruthyStr(Opt(req'.body, "name"))

\* the response reports success with the created identity, and that
\* identity is the one confirmed account added to the registry
SignupSucceeded ==
    /\ resp'.status = 200
    /\ resp'.body.success
    /\ resp'.body.user.email = req'.body.email
    /\ resp'.body.user.confirmed
    /\ resp'.body.user \notin users
    /\ users' = users \cup {resp'.body.user}

\* the response is the 'already exists' error and the registry is unchanged
SignupRefusedAsExisting ==
    /\ resp'.status = 400
    /\ Has(resp'.body, "userExists")
    /\ users' = users

\* the provider did not accept the creation: its message is returned and
\* the registry is unchanged
SignupRejectedByProvider ==
    /\ resp'.status = 400
    /\ ~Has(resp'.body, "userExists")
    /\ users' = users

\* C10 as stated: a POST /signup with non-empty email, password and name for
\* an email not in the registry returns success with the created identity,
\* created confirmed; any later POST /signup with the same email fails with
\* the 'already exists' error and leaves the registry unchanged.
C10_SignupOnceThenAlwaysRefused ==
    [][ValidSignup =>
          /\ (~ \E u \in users : u.email = req'.body.email) => SignupSucceeded
          /\ (\E a \in signedUp : a.email = req'.body.email) => SignupRefusedAsExisting]_vars

\* C10 amended: a POST /signup with non-empty email, password and name for
\* an email not in the registry either returns success with the created
\* identity, created confirmed, or, when the provider does not accept the
\* creation, returns the provider's error and leaves the registry unchanged;
\* a later POST /signup with the same email fails with the 'already exists'
\* error and leaves the registry unchanged for as long as the account that
\* was created is still in the registry.
C10_SignupRefusedWhileRegistered ==
    [][ValidSignup =>
          /\ (~ \E u \in users : u.email = req'.body.email)
                => (SignupSucceeded \/ SignupRejectedByProvider)
          /\ (\E a \in signedUp \cap users : a.email = req'.body.email)
                => SignupRefusedAsExisting]_vars

\* C10 witness: the account u3 was created by a signup, and the last request,
\* a signup with its email, was refused as existing.
C10_Witness ==
    /\ req.route = "POST /signup"
    /\ resp.status = 400 /\ Has(resp.body, "userExists")
    /\ \E a \in signedUp \cap users : a.id = "u3" /\ a.email = req.body.email

----------------------------------------------------------------------------
(* Profile and roadmap-generation claims *)

\* the verified identity of the last request's bearer token
Caller == CHOOSE u \in verifyAuth(req.auth) : TRUE

\* C13: the profile stored and returned by POST /profile has userId, email
\* and name of the verified identity of the bearer token; userId, email or
\* name values of the request body never reach the stored record.
C13_ProfileStampedFromIdentity ==
    [][Served("POST /profile") /\ resp'.status = 200 =>
          LET user == Caller'
              profile == kv'[profileKey(user.id)]
          IN  /\ profile.userId = user.id
              /\ profile.email = user.email
              /\ profile.name = user.name
              /\ resp'.body.profile = profile]_vars

\* C13 witness: u1 posted a body that names u2's identity, and the stored
\* profile carries u1's.
C13_Witness ==
    /\ req.route = "POST /profile" /\ resp.status = 200
    /\ Opt(req.body, "userId") = {"u2"} /\ Opt(req.body, "email") = {"b@x.io"}
    /\ kv[profileKey("u1")].userId = "u1"
    /\ kv[profileKey("u1")].email = "a@x.io"

\* C14: GET /profile for an authenticated user never answers not-found: it
\* returns the stored profile, or, when none is stored, the stub {userId,
\* email, name, onboardingComplete: false} of the verified identity, and
\* writes nothing to the store.
C14_GetProfileNeverNotFound ==
    [][Served("GET /profile") /\ verifyAuth(req'.auth) # {} =>
          LET user == Caller'
              key == profileKey(user.id)
          IN  /\ resp'.status = 200
              /\ resp'.body.profile =
                   IF key \in DOMAIN kv THEN kv[key]
                   ELSE [userId |-> user.id, email |-> user.email, name |-> user.name,
                         onboardingComplete |-> FALSE]
              /\ kv' = kv
              /\ \A call \in kvCalls' : call.op # "set"]_vars

\* C14 witness: the stub was returned to u1, who has no stored profile.
C14_Witness ==
    /\ req.route = "GET /profile" /\ resp.status = 200
    /\ profileKey("u1") \notin DOMAIN kv
    /\ resp.body.profile.userId = "u1"
    /\ ~resp.body.profile.onboardingComplete

\* C15: POST /generate-roadmap by an authenticated user with no stored
\* profile fails with status 400, makes no AI provider call and leaves the
\* user's roadmap record unchanged.
C15_RoadmapNeedsProfile ==
    [][(/\ Served("POST /generate-roadmap")
        /\ verifyAuth(req'.auth) # {}
        /\ profileKey(Caller'.id) \notin DOMAIN kv) =>
          /\ resp'.status = 400
          /\ fetched' = 0
          /\ KvGet(kv', roadmapKey(Caller'.id)) = KvGet(kv, roadmapKey(Caller'.id))]_vars

\* C15 witness: the request was refused although the provider key is set.
C15_Witness ==
    /\ req.route = "POST /generate-roadmap" /\ resp.status = 400
    /\ env.OPENAI_API_KEY
    /\ profileKey("u1") \notin DOMAIN kv

\* C16: for a user with a profile, when the provider key is unset or the
\* provider answers non-2xx, POST /generate-roadmap returns the template
\* roadmap; whenever a roadmap is returned it is the one stored under
\* roadmap:{userId}; at most one provider call is made per request.
C16_RoadmapFallbackPersisted ==
    [][(/\ Served("POST /generate-roadmap")
        /\ verifyAuth(req'.auth) # {}
        /\ profileKey(Caller'.id) \in DOMAIN kv) =>
          LET user == Caller'
              template == generateTemplateRoadmap(kv[profileKey(user.id)], now)
          IN  /\ fetched' <= 1
              /\ (~env.OPENAI_API_KEY => fetched' = 0)
              /\ (~env.OPENAI_API_KEY \/ answered' = "http-error") =>
                    (resp'.status = 200 /\ resp'.body.roadmap = template)
              /\ resp'.status = 200 =>
                    /\ roadmapKey(user.id) \in DOMAIN kv'
                    /\ kv'[roadmapKey(user.id)] = resp'.body.roadmap]_vars

\* C16 witness: the provider answered non-2xx, and the roadmap returned and
\* stored is the template.
C16_Witness ==
    /\ req.route = "POST /generate-roadmap" /\ resp.status = 200
    /\ answered = "http-error"
    /\ resp.body.roadmap = kv[roadmapKey("u1")]
    /\ Has(kv[roadmapKey("u1")], "isTemplate")

----------------------------------------------------------------------------
(* Missing provider keys *)

\* C17: on a cache miss with no HF_TOKEN configured, POST
\* /generate-topic-content fails with the configuration error, makes no
\* provider call, writes no topic-content record and returns no content, so
\* the same request is a miss again.
C17_TopicNeedsProviderKey ==
    [][(/\ Served("POST /generate-topic-content")
        /\ verifyAuth(req'.auth) # {}
        /\ ReqContentKey' \notin DOMAIN kv
        /\ ~env.HF_TOKEN) =>
          /\ resp'.status = 500
          /\ resp'.body.error =
               "HuggingFace API key not configured. Please add HF_TOKEN to environment variables."
          /\ resp'.body.content = {}
          /\ fetched' = 0
          /\ kv' = kv
          /\ \A call \in kvCalls' : call.op # "set"
          /\ ReqContentKey' \notin DOMAIN kv']_vars

\* C17 witness: the request for topic t1 was refused for the missing key
\* while the content of topic t2 is stored.
C17_Witness ==
    /\ req.route = "POST /generate-topic-content" /\ resp.status = 500
    /\ ~env.HF_TOKEN /\ fetched = 0
    /\ req.body.topic = "t1"
    /\ contentKey("u1", "m1", "t1") \notin DOMAIN kv
    /\ contentKey("u1", "m1", "t2") \in DOMAIN kv

\* C18: POST /chat by an authenticated user with no OPENAI_API_KEY
\* configured answers 200 with the canned setup message and requiresSetup =
\* true, makes no provider call and leaves the stored chat history unchanged.
C18_ChatNeedsSetup ==
    [][(/\ Served("POST /chat")
        /\ verifyAuth(req'.auth) # {}
        /\ ~env.OPENAI_API_KEY) =>
          /\ resp'.status = 200
          /\ resp'.body =
               [response |-> "The AI chat assistant requires an OpenAI API key to be configured. Please add your OpenAI API key to use this feature.",
                requiresSetup |-> TRUE]
          /\ fetched' = 0
          /\ kv' = kv]_vars

\* C18 witness: the setup message was returned to u1, whose stored history
\* holds entries of earlier chats.
C18_Witness ==
    /\ req.route = "POST /chat" /\ resp.status = 200
    /\ Has(resp.body, "requiresSetup")
    /\ chatKey("u1") \in DOMAIN kv
    /\ Len(kv[chatKey("u1")]) >= 2

----------------------------------------------------------------------------
(* Overlapping topic-content requests *)

\* C19: a topic-content record is immutable once written: in every
\* execution, also when POST /generate-topic-content requests for the same
\* (userId, moduleId, topic) overlap, the value stored under the key never
\* changes after its first write.
C19_TopicContentImmutable ==
    [][\A key \in DOMAIN kv : key \in DOMAIN kv' /\ kv'[key] = kv[key]]_vars

----------------------------------------------------------------------------
(* Assessment claims *)

\* C20: assessment records are append-only and uniquely keyed: every
\* successful POST /assessment creates a new record and overwrites or
\* removes none, so that k successful submissions leave exactly k records.
C20_AssessmentsAppendOnly ==
    [][Served("POST /assessment") /\ resp'.status = 200 =>
          /\ Cardinality(DOMAIN kv') = Cardinality(DOMAIN kv) + 1
          /\ \A key \in DOMAIN kv : key \in DOMAIN kv' /\ kv'[key] = kv[key]]_vars

----------------------------------------------------------------------------
(* Authentication gate and ownership claims *)

\* the header carries a token the identity provider accepts
ValidToken(authHeader) ==
    authHeader # "" /\ \E u \in users : TokenOf(u.id) = BearerToken(authHeader)

\* C11: every endpoint other than health, test, signup, reset-password and
\* delete-user, called with no Authorization header or with a token the
\* identity provider rejects, answers 401 Unauthorized and makes no
\* key-value read or write and no AI provider call.
C11_GateRejectsBeforeAnyAccess ==
    [][(req'.route # "" /\ ~ValidToken(req'.auth)) =>
          /\ resp' = [status |-> 401, body |-> [error |-> "Unauthorized"]]
          /\ kvCalls' = {}
          /\ kv' = kv
          /\ fetched' = 0]_vars

\* C11 witness: a request with a rejected token to the route that would
\* have called the provider was answered 401.
C11_Witness ==
    /\ req.route = "POST /generate-topic-content"
    /\ req.auth = "Bearer expired"
    /\ resp.status = 401
    /\ env.HF_TOKEN
    /\ kv = OnboardedStore

\* the user named in a key: the text between its first and second colon
KeyOwner(key) ==
    LET colons == BracePositions(key, ":")
        first == Min(colons)
        later == { i \in colons : i > first }
        last == IF later = {} THEN Len(key) + 1 ELSE Min(later)
    IN  SubSeq(key, first + 1, last - 1)

\* C12: a request authenticated as user u reads and writes only records of
\* u's partition: every key-value call it makes addresses a key of u, and
\* the records of every other user are the same after it, whatever
\* moduleId, topic, challengeId or other body values u supplies.
C12_RequestsStayInOwnPartition ==
    [][(req'.route # "" /\ ValidToken(req'.auth)) =>
          LET u == Caller'
          IN  /\ \A call \in kvCalls' : KeyOwner(call.key) = u.id
              /\ \A key \in DOMAIN kv' \ DOMAIN kv : KeyOwner(key) = u.id
              /\ \A key \in DOMAIN kv :
                    KeyOwner(key) # u.id => key \in DOMAIN kv' /\ kv'[key] = kv[key]]_vars

\* C12 witness: u1 stored a challenge whose id names u2, and u2's records
\* are as they were.
C12_Witness ==
    /\ req.route = "POST /challenge" /\ req.auth = "Bearer tok-u1"
    /\ req.body.challengeId = "u2:c1"
    /\ resp.status = 200
    /\ challengeKey("u1", "u2:c1") \in DOMAIN kv
    /\ kv[profileKey("u2")] = OnboardedStore[profileKey("u2")]
    /\ kv[progressKey("u2", "m1")] = OnboardedStore[progressKey("u2", "m1")]

----------------------------------------------------------------------------
(* Overlapping progress updates *)

\* C21: POST /progress reads, merges and writes with no concurrency control
\* over a last-write-wins store: the record a request writes is the merge of
\* what that request read, whatever was stored in between; so two requests
\* for one (user, module) that both read before either writes lose an update,
\* and a state is reached in which the stored timeSpent is less than the sum
\* of the submitted deltas.
C21_WritesWhatItRead ==
    [][\A n \in 1..Len(inflight) :
          (Len(inflight') = Len(inflight) /\ ~inflight[n].done /\ inflight'[n].done)
          => LET r == inflight[n]
             IN  /\ resp'.status = 200
                 /\ kv'[r.key] = resp'.body.progress
                 /\ kv'[r.key].timeSpent =
                      NumOrZero(Opt(r.existing, "timeSpent")) + NumOrZero(Opt(r.body, "timeSpent"))
                 /\ \A key \in DOMAIN kv' : kv'[key].timeSpent <= sumDeltas'[key]]_vars

\* C21 witness: two requests for u1's module m1 both read the empty store,
\* both were answered 200, and the stored timeSpent is less than the sum of
\* their deltas.
C21_Witness ==
    /\ Len(inflight) = 2
    /\ \A n \in 1..2 : inflight[n].done /\ inflight[n].existing = EmptyObj
    /\ inflight[1].key = inflight[2].key
    /\ Opt(inflight[1].body, "timeSpent") = {1} /\ Opt(inflight[2].body, "timeSpent") = {2}
    /\ sumDeltas[inflight[1].key] = 3
    /\ kv[inflight[1].key].timeSpent < sumDeltas[inflight[1].key]

----------------------------------------------------------------------------
(* Chat history claims *)

\* C22: each successful POST /chat sets the stored history to the last 50
\* entries of (previous history, then the user message, then the assistant
\* reply): the entries keep their order, the user entry immediately precedes
\* its reply, and only the oldest entries, at the front, are removed.
C22_HistoryIsLast50OfAppended ==
    [][(Served("POST /chat") /\ resp'.status = 200 /\ ~Has(resp'.body, "requiresSetup")) =>
          LET key == chatKey(Caller'.id)
              previous == IF key \in DOMAIN kv THEN kv[key] ELSE <<>>
              full == previous \o
                        << [role |-> "user", content |-> req'.body.message, timestamp |-> now],
                           [role |-> "assistant", content |-> resp'.body.response,
                            timestamp |-> now] >>
              dropped == IF Len(full) > 50 THEN Len(full) - 50 ELSE 0
          IN  kv'[key] = SubSeq(full, dropped + 1, Len(full))]_vars

\* C22 witness: a chat at time 1 was appended to a full history that began
\* at time 0: the two oldest entries were removed and the new pair is last.
C22_Witness ==
    /\ req.route = "POST /chat" /\ resp.status = 200
    /\ chatKey("u1") \in DOMAIN appended /\ appended[chatKey("u1")] = 52
    /\ LET history == kv[chatKey("u1")]
       IN  /\ Len(history) = 50
           /\ history[1].role = "user" /\ history[1].timestamp = 0
           /\ history[49] = [role |-> "user", content |-> req.body.message, timestamp |-> 1]
           /\ history[50] = [role |-> "assistant", content |-> resp.body.response, timestamp |-> 1]

\* C23: when the chat provider answers non-2xx, POST /chat returns the
\* generic error with no fallback reply, and the stored chat history is
\* unchanged: neither the user message nor an assistant entry is appended.
C23_ChatProviderFailure ==
    [][(Served("POST /chat") /\ answered' = "http-error") =>
          /\ resp'.status = 500
          /\ resp'.body = [error |-> "Failed to get response from AI assistant"]
          /\ kv' = kv
          /\ \A call \in kvCalls' : call.op # "set"]_vars

\* C23 witness: the provider failed on a request of u1, whose stored history
\* holds the two entries of an earlier chat.
C23_Witness ==
    /\ req.route = "POST /chat" /\ answered = "http-error" /\ resp.status = 500
    /\ chatKey("u1") \in DOMAIN kv
    /\ Len(kv[chatKey("u1")]) = 2

----------------------------------------------------------------------------
(* Optional fields and status of a progress record *)

\* the field of the record as an optional value; an absent record has none
FieldOf(store, key, f) == IF key \in DOMAIN store THEN Opt(store[key], f) ELSE {}

\* C24: in POST /progress each of performanceScore, notes and
\* completedTopics is replaced by the request's value whenever the request
\* provides one (a score of 0, an empty notes string and an empty topic list
\* included) and retains the stored value when the request provides none.
C24_ReplacedIfProvided ==
    [][ProgressUpdated =>
          LET key == ReqProgressKey'
          IN  /\ \A f \in {"performanceScore", "notes", "completedTopics"} :
                    Has(req'.body, f) => FieldOf(kv', key, f) = {req'.body[f]}
              /\ \A f \in {"performanceScore", "notes"} :
                    ~Has(req'.body, f) => FieldOf(kv', key, f) = FieldOf(kv, key, f)
              /\ ~Has(req'.body, "completedTopics") =>
                    FieldOf(kv', key, "completedTopics") =
                      (IF FieldOf(kv, key, "completedTopics") = {} THEN {<<>>}
                       ELSE FieldOf(kv, key, "completedTopics"))]_vars

\* C25: in every reachable state the status of every stored progress record
\* is one of 'not-started', 'in-progress', 'completed', whatever status
\* values clients submit to POST /progress.
C25_StatusInSchema ==
    \A key \in DOMAIN kv : kv[key].status \in {"not-started", "in-progress", "completed"}

----------------------------------------------------------------------------
(* Signup over an existing account *)

\* the accounts of the registry that hold the email
AccountsWith(registry, email) == { u \in registry : u.email = email }

\* C26: in POST /signup with valid fields: if the registry holds a confirmed
\* account with the email, the request fails with the conflict error and
\* neither deletes nor creates an account; if it holds an unconfirmed
\* account with the email, that account is deleted before the new one is
\* created, so that after a successful signup exactly one account with the
\* email exists and it is confirmed.
C26_SignupOverExistingAccount ==
    [][ValidSignup =>
          LET email == req'.body.email
              held == AccountsWith(users, email)
          IN  /\ (\E u \in held : u.confirmed) =>
                    /\ resp'.status = 400
                    /\ Has(resp'.body, "userExists") /\ Has(resp'.body, "needsLogin")
                    /\ users' = users
              /\ resp'.status = 200 =>
                    /\ held \cap users' = {}
                    /\ AccountsWith(users', email) = {resp'.body.user}
                    /\ resp'.body.user.confirmed
                    /\ users' = (users \ held) \cup {resp'.body.user}]_vars

\* C26 witness: the unconfirmed account u3 held the email; the signup
\* succeeded with the confirmed account u4, the only one with that email.
C26_Witness ==
    /\ req.route = "POST /signup" /\ resp.status = 200
    /\ resp.body.user.id = "u4"
    /\ signedUp = {resp.body.user}
    /\ AccountsWith(users, req.body.email) = {resp.body.user}
    /\ resp.body.user.confirmed

----------------------------------------------------------------------------
(* Answers of the topic-content provider *)

\* C27: on a cache miss with the provider key configured, once the provider
\* has answered 2xx, POST /generate-topic-content always returns a content
\* object and persists it, whatever the shape of the answer: text with no
\* brace-delimited substring yields a content object built from the raw
\* text, a missing choices/message or unparsable JSON yields the degraded
\* default content object; no parse error is returned to the caller.
C27_AnswerAlwaysYieldsContent ==
    [][(TopicRequested /\ answered' \in {"ok", "ok-not-json"}) =>
          /\ resp'.status = 200
          /\ Has(resp'.body, "content")
          /\ ReqContentKey' \in DOMAIN kv'
          /\ kv'[ReqContentKey'] = resp'.body.content]_vars

----------------------------------------------------------------------------
(* Overlapping achievement unlocks *)

\* C28: in every reachable state the unlocked list of a stored achievements
\* record holds no achievement id more than once, under any sequence of
\* POST /achievements requests, also when the reads and writes of
\* overlapping requests of the user interleave.
C28_NoDuplicateUnlocks ==
    \A key \in DOMAIN kv :
       \A i, j \in 1..Len(kv[key].unlocked) :
          i # j => kv[key].unlocked[i] # kv[key].unlocked[j]

\* C28 witness: two requests of u1 for the same id both read the default
\* record, both were answered, and the id is stored once.
C28_Witness ==
    /\ Len(inflight) = 2
    /\ \A n \in 1..2 :
          /\ inflight[n].done
          /\ inflight[n].existing = DefaultAchievements
          /\ inflight[n].body.achievementId = "first-module"
    /\ kv[achievementsKey("u1")].unlocked = <<"first-module">>

----------------------------------------------------------------------------
(* Keys of the topic-content records *)

\* C29: distinct (moduleId, topic) pairs of one user address distinct
\* topic-content records: a POST /generate-topic-content or GET
\* /topic-content for one pair never returns content that was generated for
\* another pair, for any string values of moduleId and topic, values that
\* contain ':' included.
C29_ContentOfRequestedPair ==
    LET ofPair(content) ==
          content.moduleId = req.body.moduleId /\ content.topic = req.body.topic
    IN  /\ (req.route = "POST /generate-topic-content" /\ resp.status = 200)
              => ofPair(resp.body.content)
        /\ (req.route = "GET /topic-content" /\ resp.status = 200)
              => \A content \in resp.body.content : ofPair(content)

----------------------------------------------------------------------------
(* GET routes *)

\* the route is one of the GET routes
IsGet(route) == Len(route) > 4 /\ SubSeq(route, 1, 4) = "GET "

\* C30: every GET endpoint (health, test, profile, roadmap, progress,
\* topic-content, chat/history, achievements) leaves the whole key-value
\* store and the user registry unchanged, also when the requested record
\* does not exist and a default (stub profile, null roadmap, null content,
\* empty history, default achievements) is returned.
C30_GetsChangeNothing ==
    [][IsGet(req'.route) =>
          /\ kv' = kv
          /\ users' = users
          /\ \A call \in kvCalls' : call.op \in {"get", "getByPrefix"}]_vars

\* C30 witness: u2, who has no record, was returned the default
\* achievements, and the store holds what it held before the requests.
C30_Witness ==
    /\ req.route = "GET /achievements" /\ req.auth = "Bearer tok-u2"
    /\ resp.status = 200
    /\ resp.body.achievements = [unlocked |-> <<>>, xp |-> 0, level |-> 1, streak |-> 0]
    /\ achievementsKey("u2") \notin DOMAIN kv
    /\ kv = PopulatedStore
    /\ users = InitialUsers

====
